---- MODULE Spec2Model ----
(***************************************************************************)
(* Verification model of shdiary-gen: the S-expression reader              *)
(* (new_sexp.rs, SExpParser) and the diary resolver (diary_content.rs,     *)
(* parse_diary_content).  Rust strings are modelled as sequences of bytes. *)
(***************************************************************************)
EXTENDS Integers, Sequences, FiniteSets, TLC

VARIABLES
    expr,      \* the Expression handed to parse_diary_content, or NoExpr
    result,    \* what parse_diary_content returned, or NoResult
    input,     \* the bytes behind the StringReader
    pos,       \* index of the reader's current byte; Len(input)+1 when chr is None
    stack,     \* the pending calls of SExpParser, innermost last
    outcome,   \* what the outermost parse_expression returned, or NoOutcome
    pc,        \* where main stands: "idle" while main is not run
    month_num, \* the number of the month directory main is in, 0 before the first
    entries,   \* how many entries of day_list the day loop has taken
    day_num,   \* the number in the name of the day file being processed
    days,      \* the month's vector of 31 Option<OutputDocument>
    pages,     \* the month pages written so far, in the order written
    failure,   \* the error main returned or the panic that ended it, or NoFailure
    public_img, \* the image names convert_image has copied into public/img
    seen,      \* history: the (tree, result) pairs handed back by the resolver
    date,      \* the arguments of Date::new, then the Option<Date> it returned
    weekday,   \* what Date::weekday_ja returned, or NoWeekday
    files,     \* the files convert_image reads and writes, with what each holds
    converted  \* what convert_image returned, or NoConversion

driverVars == <<pc, month_num, entries, day_num, days, pages, failure, public_img, seen>>
otherVars == <<date, weekday, files, converted>>
vars == <<expr, result, input, pos, stack, outcome, driverVars, otherVars>>
resolverVars == <<expr, result>>
readerVars == <<input, pos, stack, outcome>>

----------------------------------------------------------------------------
(* Bounds *)

MaxOperands == 4      \* longest operand list given to a fixed-arity keyword
MaxItems == 3         \* most elements of a root tuple
MaxSpans == 3         \* most operands of a txt application
MaxEntries == 2       \* most image entries of an img application
MaxListDepth == 3     \* deepest nesting of li applications
MaxDepth == 40        \* deepest nesting of parentheses read
MaxLen == 4           \* longest of the byte sources made of every byte of the alphabet
MaxElems == 2         \* most elements of a tuple that is written out and read back
MaxMonths == 2        \* most month directories of the year directory
MaxDayFiles == 2      \* most day files of a month directory

----------------------------------------------------------------------------
(* Result<T, E> and Option<T> *)

Ok(v) == [ok |-> TRUE, val |-> v]
Err(e) == [ok |-> FALSE, err |-> e]
Some(v) == [some |-> TRUE, val |-> v]
None == [some |-> FALSE]

(* u32: a value is kept as its two 16-bit halves <<high, low>>, so that    *)
(* arithmetic on it stays exact up to and beyond 2^32                      *)
Half == 65536
u32(n) == <<n \div Half, n % Half>>

(* new_sexp.rs: enum Expression *)
Tuple(l) == [tag |-> "Tuple", items |-> l]
Literal(s) == [tag |-> "Literal", name |-> s]
String(s) == [tag |-> "String", str |-> s]
Integer(n) == [tag |-> "Integer", int |-> n]

(* diary_content.rs: enum SyntaxError *)
IllegalElement == [kind |-> "IllegalElement"]
MissingOperator == [kind |-> "MissingOperator"]
UnknownOperator(name) == [kind |-> "UnknownOperator", name |-> name]
OperandMismatch == [kind |-> "OperandMismatch"]

(* diary_content.rs: Document, Item, TextItem, WebLink, Images, ImageItem *)
Document(contents) == [contents |-> contents]
Text(spans) == [tag |-> "Text", spans |-> spans]
List(items) == [tag |-> "List", items |-> items]
Header(s) == [tag |-> "Header", str |-> s]
Images(title, items) == [tag |-> "Images", title |-> title, items |-> items]
ImageItem(data, caption) == [data |-> data, caption |-> caption]
RawString(s) == [tag |-> "RawString", str |-> s]
Bold(s) == [tag |-> "Bold", str |-> s]
WebLink(title, href) == [tag |-> "WebLink", title |-> title, href |-> href]
PostLink(year, month, day) == [tag |-> "PostLink", year |-> year, month |-> month, day |-> day]
Code(s) == [tag |-> "Code", str |-> s]

(* the keywords of the match arms, as bytes *)
kw_h == <<104>>
kw_header == <<104, 101, 97, 100, 101, 114>>
kw_txt == <<116, 120, 116>>
kw_text == <<116, 101, 120, 116>>
kw_li == <<108, 105>>
kw_list == <<108, 105, 115, 116>>
kw_img == <<105, 109, 103>>
kw_image == <<105, 109, 97, 103, 101>>
kw_a == <<97>>
kw_b == <<98>>
kw_p == <<112>>
kw_code == <<99, 111, 100, 101>>

----------------------------------------------------------------------------
(* diary_content.rs: the error constructors *)

missing_operator == Err(IllegalElement)
\* a slip that reports an illegal element as an arity error
illegal_element_mismatch == Err(OperandMismatch)
illegal_element == Err(IllegalElement)
\* a slip that reports every unknown keyword as an illegal element
unknown_operator_illegal(name) == Err(IllegalElement)
unknown_operator(name) == Err(UnknownOperator(name))
operand_mismatch == Err(OperandMismatch)

(* new_sexp.rs: Application *)
\* a slip that takes the text of a String head for an operator
rator_of_text(raw) ==
    IF Len(raw) = 0 THEN None
    ELSE IF raw[1].tag = "Literal" THEN Some(raw[1].name)
    ELSE IF raw[1].tag = "String" THEN Some(raw[1].str) ELSE None
rator(raw) ==
    IF Len(raw) = 0 THEN None
    ELSE IF raw[1].tag = "Literal" THEN Some(raw[1].name) ELSE None

\* a slip that forgets to skip the operator
into_rand_iter_keep(raw) == raw

into_rand_iter(raw) == IF Len(raw) = 0 THEN <<>> ELSE Tail(raw)

(* Result::map, the ? operator (and_then) and Option::ok_or *)
map(r, F(_)) == IF r.ok THEN Ok(F(r.val)) ELSE r
and_then(r, F(_)) == IF r.ok THEN F(r.val) ELSE r
ok_or(o, e) == IF o.some THEN Ok(o.val) ELSE e

(* new_sexp.rs: unwrap_expr!, get_rand! *)
unwrap_expr(e, typ) ==
    IF e.tag # typ THEN None
    ELSE CASE typ = "Tuple" -> Some(e.items)
           [] typ = "Literal" -> Some(e.name)
           [] typ = "String" -> Some(e.str)
           [] typ = "Integer" -> Some(e.int)

get_rand(iter, typ, when_none, when_unexpected) ==
    IF Len(iter) = 0 THEN when_none
    ELSE ok_or(unwrap_expr(Head(iter), typ), when_unexpected)

(* new_sexp.rs: parse_func!, as instantiated by parse_diary_func!: one     *)
(* get_rand!(..)? per declared parameter, in declared order, then the      *)
(* check for a left-over operand.                                          *)
RECURSIVE get_params(_, _, _)
get_params(rand, types, acc) ==
    IF Len(types) = 0 THEN Ok([vals |-> acc, rest |-> rand])
    ELSE and_then(get_rand(rand, Head(types), operand_mismatch, illegal_element),
                  LAMBDA v : get_params(Tail(rand), Tail(types), Append(acc, v)))

\* a slip that drops the check for a left-over operand
parse_func_lenient(rand, types) ==
    map(get_params(rand, types, <<>>), LAMBDA p : p.vals)

parse_func(rand, types) ==
    and_then(get_params(rand, types, <<>>),
             LAMBDA p : IF Len(p.rest) > 0 THEN operand_mismatch ELSE Ok(p.vals))

parse_header(rand) ==
    map(parse_func(rand, <<"String">>), LAMBDA v : Header(v[1]))

parse_weblink(rand) ==
    map(parse_func(rand, <<"String", "String">>), LAMBDA v : WebLink(v[1], v[2]))

parse_bold(rand) ==
    map(parse_func(rand, <<"String">>), LAMBDA v : Bold(v[1]))

parse_post(rand) ==
    map(parse_func(rand, <<"Integer", "Integer", "Integer">>),
        LAMBDA v : PostLink(v[1], v[2], v[3]))

parse_code(rand) ==
    map(parse_func(rand, <<"String">>), LAMBDA v : Code(v[1]))

(* iter.map(f).collect::<Result<Vec<_>, _>>(): the values in order, or the *)
(* first error met, after which no further element is looked at            *)
\* a slip that goes on after an error and reports the last one met
RECURSIVE collect_last(_, _)
collect_last(results, acc) ==
    IF Len(results) = 0 THEN Ok(acc)
    ELSE IF Head(results).ok THEN collect_last(Tail(results), Append(acc, Head(results).val))
    ELSE IF \A i \in 2..Len(results) : results[i].ok THEN Head(results)
    ELSE collect_last(Tail(results), acc)

RECURSIVE collect(_, _)
collect(results, acc) ==
    IF Len(results) = 0 THEN Ok(acc)
    ELSE IF Head(results).ok THEN collect(Tail(results), Append(acc, Head(results).val))
    ELSE Head(results)

parse_text_item(e) ==
    CASE e.tag = "Tuple" ->
            LET op == rator(e.items)
                rand == into_rand_iter(e.items) IN
            IF op.some THEN
                CASE op.val = kw_a -> parse_weblink(rand)
                  [] op.val = kw_b -> parse_bold(rand)
                  [] op.val = kw_p -> parse_post(rand)
                  [] op.val = kw_code -> parse_code(rand)
                  [] OTHER -> unknown_operator(op.val)
            ELSE missing_operator
      [] e.tag = "String" -> Ok(RawString(e.str))
      [] OTHER -> illegal_element

parse_text(rand) ==
    map(collect([i \in 1..Len(rand) |-> parse_text_item(rand[i])], <<>>), Text)

\* a slip that drops the caption
parse_image_items_nocaption(e) ==
    CASE e.tag = "Tuple" ->
            map(get_rand(e.items, "String", operand_mismatch, illegal_element),
                LAMBDA path : ImageItem(path, None))
      [] OTHER -> illegal_element

parse_image_items(e) ==
    CASE e.tag = "Tuple" ->
            and_then(get_rand(e.items, "String", operand_mismatch, illegal_element),
                LAMBDA path :
                    map(IF Len(e.items) < 2 THEN Ok(None)
                        ELSE map(ok_or(unwrap_expr(e.items[2], "String"), Err(IllegalElement)),
                                 Some),
                        LAMBDA caption : ImageItem(path, caption)))
      [] OTHER -> illegal_element

parse_image(rand) ==
    and_then(get_rand(rand, "String", operand_mismatch, illegal_element),
        LAMBDA title :
            map(collect([i \in 1..(Len(rand) - 1) |-> parse_image_items(rand[i + 1])], <<>>),
                LAMBDA items : Images(title, items)))

RECURSIVE parse_list(_)
RECURSIVE parse_list_item(_)
\* a slip that gives list items the dispatch of top-level items
parse_list_item_as_top(e) ==
    CASE e.tag = "Tuple" ->
            LET op == rator(e.items)
                rand == into_rand_iter(e.items) IN
            IF op.some THEN
                CASE op.val \in {kw_h, kw_header} -> parse_header(rand)
                  [] op.val \in {kw_txt, kw_text} -> parse_text(rand)
                  [] op.val \in {kw_li, kw_list} -> parse_list(rand)
                  [] op.val \in {kw_img, kw_image} -> parse_image(rand)
                  [] OTHER -> unknown_operator(op.val)
            ELSE missing_operator
      [] e.tag = "String" -> Ok(Text(<<RawString(e.str)>>))
      [] OTHER -> illegal_element

parse_list_item(e) ==
    CASE e.tag = "Tuple" ->
            LET op == rator(e.items)
                rand == into_rand_iter(e.items) IN
            IF op.some THEN
                CASE op.val \in {kw_txt, kw_text} -> parse_text(rand)
                  [] op.val \in {kw_li, kw_list} -> parse_list(rand)
                  [] op.val \in {kw_img, kw_image} -> parse_image(rand)
                  [] OTHER -> unknown_operator(op.val)
            ELSE missing_operator
      [] e.tag = "String" -> Ok(Text(<<RawString(e.str)>>))
      [] OTHER -> illegal_element

parse_list(rand) ==
    map(collect([i \in 1..Len(rand) |-> parse_list_item(rand[i])], <<>>), List)

parse_top_expr(e) ==
    CASE e.tag = "Tuple" ->
            LET op == rator(e.items)
                rand == into_rand_iter(e.items) IN
            IF op.some THEN
                CASE op.val \in {kw_h, kw_header} -> parse_header(rand)
                  [] op.val \in {kw_txt, kw_text} -> parse_text(rand)
                  [] op.val \in {kw_li, kw_list} -> parse_list(rand)
                  [] op.val \in {kw_img, kw_image} -> parse_image(rand)
                  [] OTHER -> unknown_operator(op.val)
            ELSE missing_operator
      [] e.tag = "String" -> Ok(Text(<<RawString(e.str)>>))
      [] OTHER -> illegal_element

parse_top_list(list) ==
    collect([i \in 1..Len(list) |-> parse_top_expr(list[i])], <<>>)

parse_diary_content(e) ==
    CASE e.tag = "Tuple" -> map(parse_top_list(e.items), Document)
      [] OTHER -> Err(IllegalElement)

(* post_gen.rs: write_list reaches its unreachable!() arm on these items *)
RECURSIVE write_list_unreachable(_)
write_list_unreachable(items) ==
    \E i \in 1..Len(items) :
        CASE items[i].tag = "Header" -> TRUE
          [] items[i].tag = "List" -> write_list_unreachable(items[i].items)
          [] OTHER -> FALSE

(* post_gen.rs: generate_daily hands every List item to write_list *)
generate_daily_unreachable(doc) ==
    \E i \in 1..Len(doc.contents) :
        doc.contents[i].tag = "List" /\ write_list_unreachable(doc.contents[i].items)

----------------------------------------------------------------------------
(* The Expression trees handed to the resolver *)

sA == <<65>>
sB == <<66>>
lit_foo == <<102, 111, 111>>
lit_H == <<72>>

SeqsUpTo(S, n) == UNION {[1..k -> S] : k \in 0..n}
App(k, ops) == Tuple(<<Literal(k)>> \o ops)

TopFixed == {kw_h, kw_header}
SpanFixed == {kw_a, kw_b, kw_p, kw_code}

\* an operand of the given variant whose payload tells its position
OperandAt(tag, i) ==
    CASE tag = "String" -> String(<<64 + i>>)
      [] tag = "Integer" -> Integer(u32(2000 + i))
      [] tag = "Literal" -> Literal(lit_foo)

OperandLists ==
    UNION {{[i \in 1..k |-> OperandAt(f[i], i)] : f \in [1..k -> {"String", "Integer", "Literal"}]} :
            k \in 0..MaxOperands}

FixedInputs ==
    {Tuple(<<App(k, ops)>>) : k \in TopFixed, ops \in OperandLists}
    \cup {Tuple(<<App(kw_txt, <<App(k, ops)>>)>>) : k \in SpanFixed, ops \in OperandLists}

\* single elements of a root tuple, and the smaller pool its longer element lists draw on
ItemSingles ==
    {String(sA), Integer(u32(5)), Literal(lit_foo), Tuple(<<>>), Tuple(<<String(sA)>>),
     Tuple(<<Integer(u32(5)), String(sA)>>), Tuple(<<Tuple(<<>>), String(sA)>>),
     App(lit_foo, <<>>), App(lit_H, <<String(sA)>>),
     App(kw_b, <<String(sA)>>), App(kw_h, <<String(sA)>>), App(kw_h, <<>>),
     App(kw_txt, <<String(sA)>>), App(kw_li, <<String(sB)>>), App(kw_img, <<String(sA)>>)}

ItemPool ==
    {String(sA), Integer(u32(5)), Tuple(<<>>), App(lit_foo, <<>>),
     App(kw_h, <<String(sB)>>), App(kw_txt, <<String(sA)>>)}

ItemInputs ==
    {Tuple(s) : s \in SeqsUpTo(ItemPool, MaxItems)}
    \cup {Tuple(<<x>>) : x \in ItemSingles}
    \cup {String(sA), Integer(u32(5)), Literal(kw_h)}

SpanSingles ==
    {String(sA), String(sB), Integer(u32(5)), Literal(lit_foo), Tuple(<<>>), Tuple(<<Integer(u32(5))>>),
     App(kw_b, <<String(sA)>>), App(kw_a, <<String(sA), String(sB)>>),
     App(kw_p, <<Integer(u32(5)), Integer(u32(7)), Integer(u32(9))>>), App(kw_code, <<String(sB)>>),
     App(lit_foo, <<>>), App(kw_txt, <<String(sA)>>), App(kw_h, <<String(sA)>>), App(kw_b, <<>>)}

SpanPool ==
    {String(sA), Integer(u32(5)), App(kw_b, <<String(sB)>>), App(kw_a, <<String(sA), String(sB)>>),
     App(kw_p, <<Integer(u32(5)), Integer(u32(7)), Integer(u32(9))>>), App(kw_code, <<String(sB)>>),
     App(lit_foo, <<>>)}

SpanInputs ==
    {Tuple(<<App(k, s)>>) : k \in {kw_txt, kw_text}, s \in SeqsUpTo(SpanPool, MaxSpans)}
    \cup {Tuple(<<App(k, <<x>>)>>) : k \in {kw_txt, kw_text}, x \in SpanSingles}
    \cup {Tuple(<<App(kw_li, <<App(k, <<x>>)>>)>>) : k \in {kw_txt, kw_text}, x \in SpanSingles}

EntryPool ==
    {Tuple(<<String(sA)>>), Tuple(<<String(sB), String(sA)>>), Tuple(<<>>),
     Tuple(<<Integer(u32(5))>>), Tuple(<<String(sA), Integer(u32(5))>>), String(sA)}

ImageInputs ==
    {Tuple(<<App(k, <<t>> \o s)>>) :
        k \in {kw_img, kw_image}, t \in {String(sA), Integer(u32(5)), Tuple(<<>>)},
        s \in SeqsUpTo(EntryPool, MaxEntries)}
    \cup {Tuple(<<App(k, <<>>)>>) : k \in {kw_img, kw_image}}
    \cup {Tuple(<<App(kw_img, <<String(sB), Tuple(<<String(sA), String(sB), String(sA)>>)>>)>>)}

ListLeaves ==
    {String(sA), Integer(u32(5)), Tuple(<<>>), App(kw_h, <<String(sA)>>),
     App(kw_header, <<String(sB)>>), App(kw_h, <<>>), App(kw_txt, <<String(sB)>>),
     App(lit_foo, <<>>), App(kw_b, <<String(sA)>>), Tuple(<<String(sA), String(sB)>>)}

RECURSIVE Nested(_)
Nested(d) ==
    IF d = 0 THEN ListLeaves
    ELSE {App(k, s) : k \in {kw_li, kw_list},
                      s \in UNION {{<<x>>, <<String(sA), x>>} : x \in Nested(d - 1)}}

ListInputs ==
    {Tuple(<<x>>) : x \in UNION {Nested(d) : d \in 1..MaxListDepth}}
    \cup {Tuple(<<App(kw_li, <<>>)>>), Tuple(<<App(kw_li, <<App(kw_h, <<String(sA)>>), String(sB)>>)>>)}

ExprInputs == FixedInputs \cup ItemInputs \cup SpanInputs \cup ImageInputs \cup ListInputs

----------------------------------------------------------------------------
(* The resolver run on one Expression *)

NoExpr == [tag |-> "NoExpr"]
NoResult == [pending |-> TRUE]
NoOutcome == [pending |-> TRUE]

ReaderIdle == input = <<>> /\ pos = 1 /\ stack = <<>> /\ outcome = NoOutcome

NoFailure == [pending |-> TRUE]
\* main.rs: vec![None; 31]
DaysLen == 31
NoDays == [d \in 1..DaysLen |-> None]

NoDate == [none |-> TRUE]
NoWeekday == "pending"
NoFiles == [none |-> TRUE]
NoConversion == [pending |-> TRUE]

\* no date is made and no image converted
OthersIdle ==
    /\ date = NoDate /\ weekday = NoWeekday
    /\ files = NoFiles /\ converted = NoConversion

\* main is not run: only one tree or one byte source is processed
DriverIdle ==
    /\ pc = "idle" /\ month_num = 0 /\ entries = 0 /\ day_num = 0
    /\ days = NoDays /\ pages = <<>> /\ failure = NoFailure
    /\ public_img = {} /\ seen = {}
    /\ OthersIdle

InitResolve ==
    /\ expr \in ExprInputs
    /\ result = NoResult
    /\ ReaderIdle
    /\ DriverIdle

\* a slip that answers from what it resolved before
ResolveRemembering ==
    /\ expr # NoExpr
    /\ result = NoResult
    /\ result' = IF seen = {} THEN parse_diary_content(expr) ELSE Err(IllegalElement)
    /\ UNCHANGED <<expr, readerVars, driverVars, otherVars>>

(* main.rs: let post = parse_diary_content(expr) *)
Resolve ==
    /\ expr # NoExpr
    /\ result = NoResult
    /\ result' = parse_diary_content(expr)
    /\ UNCHANGED <<expr, readerVars, driverVars, otherVars>>

NextResolve == Resolve

SpecResolve == InitResolve /\ [][NextResolve]_vars

Resolved == result # NoResult

----------------------------------------------------------------------------
(* new_sexp.rs: SExpParser over a StringReader.  The byte source is a      *)
(* buffer whose reads do not fail.  stack holds the pending calls: the     *)
(* parse_tuple calls under way and, on top, the call now running.          *)

LPAREN == 40
RPAREN == 41
QUOTE == 34
BACKSLASH == 92

(* new_sexp.rs: enum ParseError, FromUtf8Error, and a panic of the thread *)
UnexpectedEOF == [kind |-> "UnexpectedEOF"]
UnexpectedCharacter(c) == [kind |-> "UnexpectedCharacter", chr |-> c]
Utf8Error == [kind |-> "Utf8Error"]
Panic == [kind |-> "panic"]

(* new_sexp.rs: enum ExpressionOrChr *)
EocExpression(e) == [kind |-> "Expression", e |-> e]
EocChr(c) == [kind |-> "Chr", chr |-> c]

IsWhitespace(c) == c \in {32, 9, 10, 12, 13}
IsDigit(c) == c \in 48..57
IsAlphabetic(c) == c \in (97..122) \cup (65..90)

(* string_reader.rs: chr() and seek() *)
HasChr == pos <= Len(input)
Chr == input[pos]
seek(p) == IF p <= Len(input) THEN p + 1 ELSE p

(* String::from_utf8: the bytes from index i on are well-formed UTF-8 *)
Cont(b, i, lo, hi) == i <= Len(b) /\ b[i] >= lo /\ b[i] <= hi
RECURSIVE Utf8From(_, _)
Utf8From(b, i) ==
    IF i > Len(b) THEN TRUE
    ELSE CASE b[i] < 128 -> Utf8From(b, i + 1)
           [] b[i] \in 194..223 -> Cont(b, i + 1, 128, 191) /\ Utf8From(b, i + 2)
           [] b[i] = 224 -> Cont(b, i + 1, 160, 191) /\ Cont(b, i + 2, 128, 191) /\ Utf8From(b, i + 3)
           [] b[i] \in (225..236) \cup {238, 239} ->
                Cont(b, i + 1, 128, 191) /\ Cont(b, i + 2, 128, 191) /\ Utf8From(b, i + 3)
           [] b[i] = 237 -> Cont(b, i + 1, 128, 159) /\ Cont(b, i + 2, 128, 191) /\ Utf8From(b, i + 3)
           [] b[i] = 240 -> Cont(b, i + 1, 144, 191) /\ Cont(b, i + 2, 128, 191)
                            /\ Cont(b, i + 3, 128, 191) /\ Utf8From(b, i + 4)
           [] b[i] \in 241..243 -> Cont(b, i + 1, 128, 191) /\ Cont(b, i + 2, 128, 191)
                                   /\ Cont(b, i + 3, 128, 191) /\ Utf8From(b, i + 4)
           [] b[i] = 244 -> Cont(b, i + 1, 128, 143) /\ Cont(b, i + 2, 128, 191)
                            /\ Cont(b, i + 3, 128, 191) /\ Utf8From(b, i + 4)
           [] OTHER -> FALSE

from_utf8(b) == IF Utf8From(b, 1) THEN Ok(b) ELSE Err(Utf8Error)

(* parse_number: str_to_u32, and result * 10 + digit in u32 arithmetic:    *)
(* the wrapped value, and whether the exact value left the u32 range       *)
str_to_u32(c) == u32(c - 48)

times10_plus(r, c) ==
    LET low == r[2] * 10 + (c - 48)
        high == r[1] * 10 + (low \div Half) IN
    [wrapped |-> <<high % Half, low % Half>>, overflow |-> high >= Half]

ExprFrame == [fn |-> "parse_expression"]
TupleFrame(r) == [fn |-> "parse_tuple", result |-> r]
StringFrame(r) == [fn |-> "parse_string", result |-> r]
NumberFrame(n) == [fn |-> "parse_number", result |-> n]
LiteralFrame(r) == [fn |-> "parse_literal", result |-> r]

Running == stack # <<>>
Top == stack[Len(stack)]
Callers == SubSeq(stack, 1, Len(stack) - 1)
In(fn) == Running /\ Top.fn = fn

\* an error leaves every pending call through its ? operator
Fail(e) ==
    /\ stack' = <<>>
    /\ outcome' = Err(e)

\* a slip that loses the element read instead of pushing it
ReturnedDropped(callers, e) ==
    IF Len(callers) = 0 THEN [stack |-> <<>>, outcome |-> Ok(EocExpression(e))]
    ELSE [stack |-> Append(callers, ExprFrame), outcome |-> NoOutcome]

\* parse_expression hands Expression e to its caller: the caller of the
\* outermost call gets it as the outcome; a parse_tuple pushes it and calls
\* parse_expression again
Returned(callers, e) ==
    IF Len(callers) = 0 THEN [stack |-> <<>>, outcome |-> Ok(EocExpression(e))]
    ELSE LET t == callers[Len(callers)] IN
         [stack |-> SubSeq(callers, 1, Len(callers) - 1)
                        \o <<TupleFrame(Append(t.result, e)), ExprFrame>>,
          outcome |-> NoOutcome]

Return(callers, e) ==
    /\ stack' = Returned(callers, e).stack
    /\ outcome' = Returned(callers, e).outcome

(* roll_up_and_get: one turn of the loop on a whitespace byte *)
RollUpSkip ==
    /\ In("parse_expression")
    /\ HasChr /\ IsWhitespace(Chr)
    /\ pos' = seek(pos)
    /\ UNCHANGED <<stack, outcome, input, resolverVars, driverVars, otherVars>>

\* a slip that goes round the loop again when the source has ended
RollUpEofWaits ==
    /\ In("parse_expression")
    /\ ~HasChr
    /\ UNCHANGED <<stack, outcome, pos, input, resolverVars, driverVars, otherVars>>

(* roll_up_and_get: the source ended *)
RollUpEof ==
    /\ In("parse_expression")
    /\ ~HasChr
    /\ Fail(UnexpectedEOF)
    /\ UNCHANGED <<pos, input, resolverVars, driverVars, otherVars>>

(* parse_expression on '(': parse_tuple starts and calls parse_expression *)
BeginTuple ==
    /\ In("parse_expression")
    /\ HasChr /\ Chr = LPAREN
    /\ pos' = seek(pos)
    /\ stack' = Callers \o <<TupleFrame(<<>>), ExprFrame>>
    /\ UNCHANGED <<outcome, input, resolverVars, driverVars, otherVars>>

(* parse_expression on '"' *)
BeginString ==
    /\ In("parse_expression")
    /\ HasChr /\ Chr = QUOTE
    /\ pos' = seek(pos)
    /\ stack' = Append(Callers, StringFrame(<<>>))
    /\ UNCHANGED <<outcome, input, resolverVars, driverVars, otherVars>>

(* parse_expression on a digit *)
BeginNumber ==
    /\ In("parse_expression")
    /\ HasChr /\ IsDigit(Chr)
    /\ pos' = seek(pos)
    /\ stack' = Append(Callers, NumberFrame(str_to_u32(Chr)))
    /\ UNCHANGED <<outcome, input, resolverVars, driverVars, otherVars>>

(* parse_expression on a letter *)
BeginLiteral ==
    /\ In("parse_expression")
    /\ HasChr /\ IsAlphabetic(Chr)
    /\ pos' = seek(pos)
    /\ stack' = Append(Callers, LiteralFrame(<<Chr>>))
    /\ UNCHANGED <<outcome, input, resolverVars, driverVars, otherVars>>

StartsNoToken(c) ==
    ~IsWhitespace(c) /\ c # LPAREN /\ c # QUOTE /\ ~IsDigit(c) /\ ~IsAlphabetic(c)

(* parse_expression on any other byte, called from outside any tuple: the *)
(* byte is the value returned                                             *)
BareChr ==
    /\ In("parse_expression")
    /\ HasChr /\ StartsNoToken(Chr)
    /\ Len(Callers) = 0
    /\ pos' = seek(pos)
    /\ stack' = <<>>
    /\ outcome' = Ok(EocChr(Chr))
    /\ UNCHANGED <<input, resolverVars, driverVars, otherVars>>

(* parse_tuple gets ')' from parse_expression and returns its Tuple *)
CloseTuple ==
    /\ In("parse_expression")
    /\ HasChr /\ Chr = RPAREN
    /\ Len(Callers) > 0
    /\ pos' = seek(pos)
    /\ Return(SubSeq(Callers, 1, Len(Callers) - 1), Tuple(Callers[Len(Callers)].result))
    /\ UNCHANGED <<input, resolverVars, driverVars, otherVars>>

(* parse_tuple gets any other byte from parse_expression *)
UnexpectedInTuple ==
    /\ In("parse_expression")
    /\ HasChr /\ StartsNoToken(Chr) /\ Chr # RPAREN
    /\ Len(Callers) > 0
    /\ pos' = seek(pos)
    /\ Fail(UnexpectedCharacter(Chr))
    /\ UNCHANGED <<input, resolverVars, driverVars, otherVars>>

(* parse_string: one turn of the loop on an ordinary byte *)
StringChar ==
    /\ In("parse_string")
    /\ HasChr /\ Chr # BACKSLASH /\ Chr # QUOTE
    /\ pos' = seek(pos)
    /\ stack' = Append(Callers, StringFrame(Append(Top.result, Chr)))
    /\ UNCHANGED <<outcome, input, resolverVars, driverVars, otherVars>>

\* a slip that leaves the cursor on the escaped byte after pushing it
StringEscapeNoSeek ==
    /\ In("parse_string")
    /\ HasChr /\ Chr = BACKSLASH
    /\ LET p == seek(pos) IN
       IF p > Len(input) THEN
            /\ pos' = p
            /\ UNCHANGED <<stack, outcome>>
       ELSE IF input[p] \in {BACKSLASH, QUOTE} THEN
            /\ pos' = p
            /\ stack' = Append(Callers, StringFrame(Append(Top.result, input[p])))
            /\ UNCHANGED outcome
       ELSE /\ pos' = p
            /\ Fail(UnexpectedCharacter(input[p]))
    /\ UNCHANGED <<input, resolverVars, driverVars, otherVars>>

(* parse_string: one turn of the loop on a backslash *)
StringEscape ==
    /\ In("parse_string")
    /\ HasChr /\ Chr = BACKSLASH
    /\ LET p == seek(pos) IN
       IF p > Len(input) THEN
            /\ pos' = p
            /\ UNCHANGED <<stack, outcome>>
       ELSE IF input[p] \in {BACKSLASH, QUOTE} THEN
            /\ pos' = seek(p)
            /\ stack' = Append(Callers, StringFrame(Append(Top.result, input[p])))
            /\ UNCHANGED outcome
       ELSE /\ pos' = p
            /\ Fail(UnexpectedCharacter(input[p]))
    /\ UNCHANGED <<input, resolverVars, driverVars, otherVars>>

(* parse_string: the closing quote *)
StringClose ==
    /\ In("parse_string")
    /\ HasChr /\ Chr = QUOTE
    /\ pos' = seek(pos)
    /\ IF from_utf8(Top.result).ok
       THEN Return(Callers, String(from_utf8(Top.result).val))
       ELSE Fail(Utf8Error)
    /\ UNCHANGED <<input, resolverVars, driverVars, otherVars>>

\* a slip that takes the end of the source for the closing quote
StringEofCloses ==
    /\ In("parse_string")
    /\ ~HasChr
    /\ Return(Callers, String(Top.result))
    /\ UNCHANGED <<pos, input, resolverVars, driverVars, otherVars>>

(* parse_string: the source ended *)
StringEof ==
    /\ In("parse_string")
    /\ ~HasChr
    /\ Fail(UnexpectedEOF)
    /\ UNCHANGED <<pos, input, resolverVars, driverVars, otherVars>>

(* parse_number: one turn of the loop on a digit; on overflow a release    *)
(* build goes on with the wrapped value and a build with overflow checks   *)
(* panics                                                                  *)
NumberDigit ==
    /\ In("parse_number")
    /\ HasChr /\ IsDigit(Chr)
    /\ pos' = seek(pos)
    /\ \/ /\ stack' = Append(Callers, NumberFrame(times10_plus(Top.result, Chr).wrapped))
          /\ UNCHANGED outcome
       \/ /\ times10_plus(Top.result, Chr).overflow
          /\ Fail(Panic)
    /\ UNCHANGED <<input, resolverVars, driverVars, otherVars>>

(* parse_number: a byte that is no digit ends the number and stays unread *)
NumberEnd ==
    /\ In("parse_number")
    /\ HasChr /\ ~IsDigit(Chr)
    /\ Return(Callers, Integer(Top.result))
    /\ UNCHANGED <<pos, input, resolverVars, driverVars, otherVars>>

(* parse_number: the source ended *)
NumberEof ==
    /\ In("parse_number")
    /\ ~HasChr
    /\ Fail(UnexpectedEOF)
    /\ UNCHANGED <<pos, input, resolverVars, driverVars, otherVars>>

(* parse_literal: one turn of the loop on a byte that is no whitespace *)
LiteralChar ==
    /\ In("parse_literal")
    /\ HasChr /\ ~IsWhitespace(Chr)
    /\ pos' = seek(pos)
    /\ stack' = Append(Callers, LiteralFrame(Append(Top.result, Chr)))
    /\ UNCHANGED <<outcome, input, resolverVars, driverVars, otherVars>>

(* parse_literal: a whitespace byte ends the literal and stays unread *)
LiteralEnd ==
    /\ In("parse_literal")
    /\ HasChr /\ IsWhitespace(Chr)
    /\ IF from_utf8(Top.result).ok
       THEN Return(Callers, Literal(from_utf8(Top.result).val))
       ELSE Fail(Utf8Error)
    /\ UNCHANGED <<pos, input, resolverVars, driverVars, otherVars>>

(* parse_literal: the source ended *)
LiteralEof ==
    /\ In("parse_literal")
    /\ ~HasChr
    /\ Fail(UnexpectedEOF)
    /\ UNCHANGED <<pos, input, resolverVars, driverVars, otherVars>>

ReaderStep ==
    \/ RollUpSkip \/ RollUpEof
    \/ BeginTuple \/ BeginString \/ BeginNumber \/ BeginLiteral
    \/ BareChr \/ CloseTuple \/ UnexpectedInTuple
    \/ StringChar \/ StringEscape \/ StringClose \/ StringEof
    \/ NumberDigit \/ NumberEnd \/ NumberEof
    \/ LiteralChar \/ LiteralEnd \/ LiteralEof

(* main.rs: the Expression read is what parse_diary_content is given *)
HandOver ==
    /\ outcome # NoOutcome
    /\ outcome.ok /\ outcome.val.kind = "Expression"
    /\ expr = NoExpr
    /\ expr' = outcome.val.e
    /\ UNCHANGED <<result, readerVars, driverVars, otherVars>>

(* The byte sources read *)
Parens(n) == [i \in 1..(2 * n) |-> IF i <= n THEN LPAREN ELSE RPAREN]
ParenInputs == {Parens(n) : n \in 1..MaxDepth}

Alphabet == {LPAREN, RPAREN, QUOTE, BACKSLASH, 32, 97, 49, 96, 255}
ShortInputs == UNION {[1..k -> Alphabet] : k \in 1..MaxLen}

\* (`x`) and ((txt `x`)): a backquoted token as an item and as a span
CodeItemInput == <<40, 96, 120, 96, 41>>
CodeSpanInput == <<40, 40, 116, 120, 116, 32, 96, 120, 96, 41, 41>>

\* 4294967296 and 4294967295, each followed by a space; ((h "A" ) "B")
LongInputs ==
    {<<52, 50, 57, 52, 57, 54, 55, 50, 57, 54, 32>>,
     <<52, 50, 57, 52, 57, 54, 55, 50, 57, 53, 32>>,
     <<40, 40, 104, 32, 34, 65, 34, 32, 41, 32, 34, 66, 34, 41>>,
     <<48, 48, 55, 32>>,
     <<48, 48, 48, 48, 48, 48, 48, 48, 48, 48, 48, 49, 32>>}

\* ("() `\\\"") : a string holding parentheses, a space, a backquote and both escapes
StringInTupleInput == <<40, 34, 40, 41, 32, 96, 92, 92, 92, 34, 34, 41>>
\* `backquoted`
BackquotedInput == <<96, 98, 97, 99, 107, 113, 117, 111, 116, 101, 100, 96>>
\* 1234567890
DigitsInput == <<49, 50, 51, 52, 53, 54, 55, 56, 57, 48>>
\* literal
LiteralInput == <<108, 105, 116, 101, 114, 97, 108>>
\* (h)
HeadOnlyInput == <<40, 104, 41>>
\* (b"x")
BoldInput == <<40, 98, 34, 120, 34, 41>>
\* # and (#
HashInput == <<35>>
HashInTupleInput == <<40, 35>>

(* The textual grammar written out: the elements of a tuple with one space *)
(* between them and none before ')', a string between quotes with each     *)
(* backslash and quote escaped, a literal as its name, an integer in       *)
(* decimal                                                                 *)
DivTen(n) == <<n[1] \div 10, ((n[1] % 10) * Half + n[2]) \div 10>>
ModTen(n) == ((n[1] % 10) * Half + n[2]) % 10

RECURSIVE Decimal(_)
Decimal(n) ==
    IF n[1] = 0 /\ n[2] < 10 THEN <<48 + n[2]>>
    ELSE Decimal(DivTen(n)) \o <<48 + ModTen(n)>>

RECURSIVE Escaped(_)
Escaped(s) ==
    IF Len(s) = 0 THEN <<>>
    ELSE (IF Head(s) \in {BACKSLASH, QUOTE} THEN <<BACKSLASH, Head(s)>> ELSE <<Head(s)>>)
         \o Escaped(Tail(s))

RECURSIVE Written(_)
RECURSIVE Spaced(_)
Spaced(l) ==
    IF Len(l) = 0 THEN <<>>
    ELSE IF Len(l) = 1 THEN Written(l[1])
    ELSE Written(Head(l)) \o <<32>> \o Spaced(Tail(l))

Written(e) ==
    CASE e.tag = "Tuple" -> <<LPAREN>> \o Spaced(e.items) \o <<RPAREN>>
      [] e.tag = "Literal" -> e.name
      [] e.tag = "String" -> <<QUOTE>> \o Escaped(e.str) \o <<QUOTE>>
      [] e.tag = "Integer" -> Decimal(e.int)

\* the trees written and read back: leaves, tuples of up to MaxElems leaves,
\* and tuples that hold one such tuple after a leaf
TreeLeaves ==
    {Literal(kw_h), Literal(<<98, 49>>), String(sA), String(<<QUOTE, BACKSLASH, LPAREN>>),
     Integer(u32(0)), Integer(u32(2024)), Integer(<<65535, 65535>>)}

FlatTrees == {Tuple(l) : l \in SeqsUpTo(TreeLeaves, MaxElems)}

RoundTripTrees ==
    TreeLeaves \cup FlatTrees
    \cup {Tuple(<<x, t>>) : x \in {Literal(kw_li), String(sB)}, t \in FlatTrees}

WrittenInputs == {Written(t) : t \in RoundTripTrees}

TokenInputs ==
    {StringInTupleInput, BackquotedInput, DigitsInput, LiteralInput, HeadOnlyInput, BoldInput,
     HashInput, HashInTupleInput}

ByteInputs ==
    ParenInputs \cup ShortInputs \cup LongInputs \cup {CodeItemInput, CodeSpanInput}
    \cup TokenInputs \cup WrittenInputs

(* main.rs: StringReader::new on a source that is not empty, then          *)
(* SExpParser::new and the call of parse_expression                        *)
InitRead ==
    /\ input \in ByteInputs
    /\ pos = 1
    /\ stack = <<ExprFrame>>
    /\ outcome = NoOutcome
    /\ expr = NoExpr
    /\ result = NoResult
    /\ DriverIdle

NextRead == ReaderStep \/ HandOver \/ Resolve

SpecRead == InitRead /\ [][NextRead]_vars

\* parse_expression is one sequential call: while a call is pending the
\* thread takes the next step of the loop it is in
SpecReadFair == SpecRead /\ WF_vars(ReaderStep)

Finished == outcome # NoOutcome

----------------------------------------------------------------------------
(* main.rs: the loop of main over the month directories of one year        *)
(* directory and over the day files of each month.  The month directories  *)
(* carry the numbers 1, 2, ... in the order read_dir yields them.          *)

(* main.rs: enum Error, with the call an io::Error came from *)
IOError(what) == [kind |-> "IOError", what |-> what]
PathNameError == [kind |-> "PathNameError"]
ParseError(e) == [kind |-> "ParseError", err |-> e]
SyntaxError(e) == [kind |-> "SyntaxError", err |-> e]
ImageError == [kind |-> "ImageError"]
\* main.rs:118 hands the value read to parse_diary_content, which takes an
\* Expression; a Chr value is none, and main has nothing to go on with
NotAnExpression(c) == [kind |-> "NotAnExpression", chr |-> c]

(* main.rs: the map_err of the reader's error *)
main_error(e) == IF e \in {Utf8Error, Panic} THEN e ELSE ParseError(e)

(* main.rs: path_name_to_usize on the stem of a file name: str::parse of a  *)
(* run of decimal digits, after an optional '+'                             *)
RECURSIVE parse_usize(_, _)
parse_usize(s, acc) ==
    IF Len(s) = 0 THEN acc ELSE parse_usize(Tail(s), acc * 10 + (Head(s) - 48))

path_name_to_usize(stem) ==
    LET digits == IF Len(stem) >= 1 /\ Head(stem) = 43 THEN Tail(stem) ELSE stem IN
    IF Len(digits) >= 1 /\ \A i \in 1..Len(digits) : IsDigit(digits[i])
    THEN Ok(parse_usize(digits, 0))
    ELSE Err(PathNameError)

\* a slip that builds a cursor on an empty source too
StringReader_new_always(bytes) == Ok(Some([input |-> bytes, pos |-> 1]))

(* string_reader.rs: StringReader::new: no reader when the source has no    *)
(* first byte, else a reader whose chr is that byte                         *)
StringReader_new(bytes) ==
    IF Len(bytes) = 0 THEN Ok(None) ELSE Ok(Some([input |-> bytes, pos |-> 1]))

(* image.rs: the ImagePath convert_image returns when nothing fails: the    *)
(* name up to its first '.', and the dimensions of the thumbnail            *)
BaseName(file_name) ==
    IF \E i \in 1..Len(file_name) : file_name[i] = 46
    THEN SubSeq(file_name, 1,
                (CHOOSE i \in 1..Len(file_name) :
                    file_name[i] = 46 /\ \A j \in 1..(i - 1) : file_name[j] # 46) - 1)
    ELSE file_name

convert_image(file_name) ==
    [image_name |-> BaseName(file_name), size |-> [thumbnail_of |-> file_name]]

(* main.rs: handle_image_items and handle_image when no conversion fails *)
RECURSIVE handle_image_items(_)
handle_image_items(item) ==
    CASE item.tag = "Images" ->
            Images(item.title,
                   [i \in 1..Len(item.items) |->
                        ImageItem(convert_image(item.items[i].data), item.items[i].caption)])
      [] item.tag = "List" -> List([i \in 1..Len(item.items) |-> handle_image_items(item.items[i])])
      [] OTHER -> item

handle_image(doc) ==
    Document([i \in 1..Len(doc.contents) |-> handle_image_items(doc.contents[i])])

\* the file names handle_image gives to convert_image, in the order of the calls
RECURSIVE image_files(_)
image_files(items) ==
    IF Len(items) = 0 THEN <<>>
    ELSE (CASE Head(items).tag = "Images" ->
                    [i \in 1..Len(Head(items).items) |-> Head(items).items[i].data]
            [] Head(items).tag = "List" -> image_files(Head(items).items)
            [] OTHER -> <<>>)
         \o image_files(Tail(items))

(* post_gen.rs: generate_monthly: the days that hold a document, the last  *)
(* day first                                                               *)
RECURSIVE dailies(_, _)
dailies(docs, d) ==
    IF d = 0 THEN <<>>
    ELSE (IF docs[d].some THEN <<[day |-> d, doc |-> docs[d].val]>> ELSE <<>>)
         \o dailies(docs, d - 1)

generate_monthly(m, docs) ==
    [month |-> m, dailies |-> dailies(docs, DaysLen), complete |-> TRUE]

(* The day files met: their stems, and their bytes *)
DayStems == {<<49>>, <<50>>, <<48>>, <<51, 50>>, <<120>>}      \* 1, 2, 0, 32, x

EmptyFile == <<>>
\* ("A\"")
TextFile == <<40, 34, 65, 92, 34, 34, 41>>
\* ((img "A" ("B.w")))
ImageFile == <<40, 40, 105, 109, 103, 32, 34, 65, 34, 32, 40, 34, 66, 46, 119, 34, 41, 41, 41>>
\* (12)
NumberFile == <<40, 49, 50, 41>>
\* the files ( and (# and " and 1 and a and )
BrokenFiles == {<<40>>, <<40, 35>>, <<34>>, <<49>>, <<97>>, <<41>>}

DayFiles == {EmptyFile, TextFile, ImageFile, NumberFile} \cup BrokenFiles

\* a slip that notes the error and goes on with the next day file
AbortDayOnly(e) ==
    /\ pc' = "days"
    /\ failure' = e

\* main returns the error through a ? operator, or a panic ends it
Abort(e) ==
    /\ pc' = "failed"
    /\ failure' = e

(* main.rs:99-102: the next month directory: read_dir of it, its number,   *)
(* and an empty vector of days                                             *)
EnterMonth ==
    /\ UNCHANGED otherVars
    /\ pc = "months"
    /\ month_num < MaxMonths
    /\ \/ /\ month_num' = month_num + 1
          /\ days' = NoDays
          /\ entries' = 0
          /\ pc' = "days"
          /\ UNCHANGED failure
       \/ /\ Abort(IOError("read_dir"))
          /\ UNCHANGED <<month_num, days, entries>>
    /\ UNCHANGED <<day_num, pages, public_img, seen, resolverVars, readerVars>>

(* main.rs:137-153: no month directory is left: the index is written *)
LeaveYear ==
    /\ UNCHANGED otherVars
    /\ pc = "months"
    /\ \/ pc' = "done" /\ UNCHANGED failure
       \/ Abort(IOError("index"))
    /\ UNCHANGED <<month_num, entries, day_num, days, pages, public_img, seen,
                   resolverVars, readerVars>>

(* main.rs:104-112: the next entry of day_list: its number, File::open and *)
(* StringReader::new, `continue` when there is no reader, else             *)
(* SExpParser::new and the call of parse_expression                        *)
TakeDay ==
    /\ UNCHANGED otherVars
    /\ pc = "days"
    /\ entries < MaxDayFiles
    /\ entries' = entries + 1
    /\ \E stem \in DayStems, readable \in BOOLEAN, bytes \in DayFiles :
          IF ~path_name_to_usize(stem).ok
          THEN Abort(path_name_to_usize(stem).err) /\ UNCHANGED <<day_num, readerVars>>
          ELSE IF ~readable
          THEN Abort(IOError("open")) /\ UNCHANGED <<day_num, readerVars>>
          ELSE IF ~StringReader_new(bytes).val.some
          THEN UNCHANGED <<pc, failure, day_num, readerVars>>
          ELSE /\ day_num' = path_name_to_usize(stem).val
               /\ input' = StringReader_new(bytes).val.val.input
               /\ pos' = StringReader_new(bytes).val.val.pos
               /\ stack' = <<ExprFrame>>
               /\ outcome' = NoOutcome
               /\ pc' = "day"
               /\ UNCHANGED failure
    /\ UNCHANGED <<month_num, days, pages, public_img, seen, resolverVars>>

(* main.rs:113-117: parse_expression returned an error, or panicked *)
ParseFailed ==
    /\ UNCHANGED otherVars
    /\ pc = "day"
    /\ outcome # NoOutcome /\ ~outcome.ok
    /\ Abort(main_error(outcome.err))
    /\ UNCHANGED <<month_num, entries, day_num, days, pages, public_img, seen,
                   resolverVars, readerVars>>

(* main.rs:118: parse_expression returned a byte *)
NoExpression ==
    /\ UNCHANGED otherVars
    /\ pc = "day"
    /\ outcome # NoOutcome /\ outcome.ok /\ outcome.val.kind = "Chr"
    /\ Abort(NotAnExpression(outcome.val.chr))
    /\ UNCHANGED <<month_num, entries, day_num, days, pages, public_img, seen,
                   resolverVars, readerVars>>

(* main.rs:118: parse_diary_content returned an error *)
ResolveFailed ==
    /\ UNCHANGED otherVars
    /\ pc = "day"
    /\ result # NoResult /\ ~result.ok
    /\ Abort(SyntaxError(result.err))
    /\ seen' = seen \cup {<<expr, result>>}
    /\ UNCHANGED <<month_num, entries, day_num, days, pages, public_img,
                   resolverVars, readerVars>>

(* main.rs:120-122: handle_image converts the images in order, the first n *)
(* of them before one fails or all of them; then the document goes into    *)
(* the slot of its day, outside the vector a panic                         *)
StoreDay ==
    /\ UNCHANGED otherVars
    /\ pc = "day"
    /\ result # NoResult /\ result.ok
    /\ seen' = seen \cup {<<expr, result>>}
    /\ \E n \in 0..Len(image_files(result.val.contents)) :
          /\ public_img' = public_img
                \cup {BaseName(image_files(result.val.contents)[i]) : i \in 1..n}
          /\ IF n < Len(image_files(result.val.contents))
             THEN /\ \E e \in {ImageError, IOError("convert_image")} : Abort(e)
                  /\ UNCHANGED <<day_num, days, resolverVars, readerVars>>
             ELSE IF day_num \notin 1..DaysLen
             THEN /\ Abort(Panic)
                  /\ UNCHANGED <<day_num, days, resolverVars, readerVars>>
             ELSE /\ days' = [days EXCEPT ![day_num] = Some(handle_image(result.val))]
                  /\ day_num' = 0
                  /\ input' = <<>> /\ pos' = 1 /\ stack' = <<>> /\ outcome' = NoOutcome
                  /\ expr' = NoExpr /\ result' = NoResult
                  /\ pc' = "days"
                  /\ UNCHANGED failure
    /\ UNCHANGED <<month_num, entries, pages>>

(* main.rs:125-134: day_list is at its end: File::create of the page and   *)
(* generate_monthly, which may fail after writing some of the days         *)
WritePage ==
    /\ UNCHANGED otherVars
    /\ pc = "days"
    /\ \/ /\ pages' = Append(pages, generate_monthly(month_num, days))
          /\ pc' = "months"
          /\ UNCHANGED failure
       \/ /\ Abort(IOError("create"))
          /\ UNCHANGED pages
       \/ /\ \E k \in 0..Len(dailies(days, DaysLen)) :
                pages' = Append(pages, [month |-> month_num,
                                        dailies |-> SubSeq(dailies(days, DaysLen), 1, k),
                                        complete |-> FALSE])
          /\ Abort(IOError("write"))
    /\ UNCHANGED <<month_num, entries, day_num, days, public_img, seen,
                   resolverVars, readerVars>>

InitDrive ==
    /\ pc = "months" /\ month_num = 0 /\ entries = 0 /\ day_num = 0
    /\ days = NoDays /\ pages = <<>> /\ failure = NoFailure
    /\ public_img = {} /\ seen = {}
    /\ ReaderIdle
    /\ expr = NoExpr /\ result = NoResult
    /\ OthersIdle

NextDrive ==
    \/ EnterMonth \/ LeaveYear \/ TakeDay
    \/ ReaderStep \/ ParseFailed \/ NoExpression
    \/ HandOver \/ Resolve \/ ResolveFailed \/ StoreDay
    \/ WritePage

SpecDrive == InitDrive /\ [][NextDrive]_vars

----------------------------------------------------------------------------
(* Vocabulary of the properties: the grammar as the specification words it *)

IsApp(e, K) ==
    /\ e.tag = "Tuple"
    /\ Len(e.items) >= 1
    /\ e.items[1].tag = "Literal"
    /\ e.items[1].name \in K

Operands(e) == Tail(e.items)
Least(S) == CHOOSE i \in S : \A j \in S : i <= j

TopKeywords == {kw_h, kw_header, kw_txt, kw_text, kw_li, kw_list, kw_img, kw_image}
SpanKeywords == {kw_a, kw_b, kw_p, kw_code}

\* the root holds exactly one element
SingleRoot == expr.tag = "Tuple" /\ Len(expr.items) = 1
\* the root holds a txt/text application, whose operands are text spans
TextRoot == SingleRoot /\ IsApp(expr.items[1], {kw_txt, kw_text})
\* the root holds a li/list application, whose operands are list items
ListRoot == SingleRoot /\ IsApp(expr.items[1], {kw_li, kw_list})
\* the root holds an img/image application
ImageRoot == SingleRoot /\ IsApp(expr.items[1], {kw_img, kw_image})

Declared(k) ==
    CASE k \in {kw_h, kw_header, kw_b, kw_code} -> <<"String">>
      [] k = kw_a -> <<"String", "String">>
      [] k = kw_p -> <<"Integer", "Integer", "Integer">>

Built(k, ops) ==
    CASE k \in {kw_h, kw_header} -> Header(ops[1].str)
      [] k = kw_b -> Bold(ops[1].str)
      [] k = kw_code -> Code(ops[1].str)
      [] k = kw_a -> WebLink(ops[1].str, ops[2].str)
      [] k = kw_p -> PostLink(ops[1].int, ops[2].int, ops[3].int)

\* what the fixed-arity policy prescribes for keyword k applied to ops
Prescribed(k, ops) ==
    LET ty == Declared(k)
        bad == {i \in 1..Len(ty) : i > Len(ops) \/ ops[i].tag # ty[i]} IN
    IF bad # {} THEN
        (IF Least(bad) > Len(ops) THEN Err(OperandMismatch) ELSE Err(IllegalElement))
    ELSE IF Len(ops) > Len(ty) THEN Err(OperandMismatch)
    ELSE Ok(Built(k, ops))

\* C1: a fixed-arity keyword (h/header at item position; a, b, p, code at
\* span position) matches its operands positionally: the first required
\* position that is missing gives OperandMismatch, the first that holds the
\* wrong variant gives IllegalElement, left-over operands give
\* OperandMismatch, and only an exact match yields the value.
C1_FixedArity ==
    Resolved =>
        /\ (SingleRoot /\ IsApp(expr.items[1], {kw_h, kw_header})) =>
              LET e == expr.items[1]
                  want == Prescribed(e.items[1].name, Operands(e)) IN
              result = (IF want.ok THEN Ok(Document(<<want.val>>)) ELSE want)
        /\ (TextRoot /\ Len(expr.items[1].items) = 2
                     /\ IsApp(expr.items[1].items[2], SpanKeywords)) =>
              LET e == expr.items[1].items[2]
                  want == Prescribed(e.items[1].name, Operands(e)) IN
              result = (IF want.ok THEN Ok(Document(<<Text(<<want.val>>)>>)) ELSE want)

C1_Witness ==
    /\ Resolved
    /\ expr = Tuple(<<App(kw_h, <<OperandAt("String", 1), OperandAt("String", 2)>>)>>)
    /\ result = Err(OperandMismatch)

\* C2: an empty tuple where an item, a list item or a text span is expected
\* makes the resolution fail with MissingOperator.
C2_EmptyTupleMissingOperator ==
    Resolved =>
        /\ (expr.tag = "Tuple" /\ Len(expr.items) >= 1 /\ expr.items[1] = Tuple(<<>>))
              => result = Err(MissingOperator)
        /\ ((TextRoot \/ ListRoot) /\ Len(expr.items[1].items) >= 2
                                   /\ expr.items[1].items[2] = Tuple(<<>>))
              => result = Err(MissingOperator)

\* the head literal of an application, when it is none of the keywords K
UnknownHead(e, K) ==
    /\ e.tag = "Tuple"
    /\ Len(e.items) >= 1
    /\ e.items[1].tag = "Literal"
    /\ e.items[1].name \notin K

\* C3: at item, list-item and span position, a tuple whose head literal is
\* not a keyword of that position fails with UnknownOperator carrying the
\* head's text; keywords are case-sensitive, and a span keyword at item
\* position is unknown.
C3_UnknownOperator ==
    Resolved =>
        /\ (expr.tag = "Tuple" /\ Len(expr.items) >= 1 /\ UnknownHead(expr.items[1], TopKeywords))
              => result = Err(UnknownOperator(expr.items[1].items[1].name))
        /\ (ListRoot /\ Len(expr.items[1].items) >= 2
                     /\ UnknownHead(expr.items[1].items[2], TopKeywords))
              => result = Err(UnknownOperator(expr.items[1].items[2].items[1].name))
        /\ (TextRoot /\ Len(expr.items[1].items) >= 2
                     /\ UnknownHead(expr.items[1].items[2], SpanKeywords))
              => result = Err(UnknownOperator(expr.items[1].items[2].items[1].name))

C3_Witness ==
    /\ Resolved
    /\ expr.tag = "Tuple" /\ Len(expr.items) >= 1
    /\ expr.items[1] = App(kw_b, <<String(sA)>>)
    /\ result = Err(UnknownOperator(kw_b))

\* a well-formed text span, and the span it stands for
ValidSpan(e) ==
    \/ e.tag = "String"
    \/ IsApp(e, SpanKeywords) /\ Prescribed(e.items[1].name, Operands(e)).ok

SpanOf(e) ==
    IF e.tag = "String" THEN RawString(e.str) ELSE Built(e.items[1].name, Operands(e))

\* C4: (txt e1 ... en) and (text e1 ... en) yield a Text of exactly n spans
\* in operand order, a String giving Raw, (b s) Bold, (a t h) WebLink,
\* (p y m d) PostRef and (code s) Code; the operator is no span.
C4_TextSpans ==
    (Resolved /\ TextRoot /\ \A i \in 2..Len(expr.items[1].items) : ValidSpan(expr.items[1].items[i]))
        => LET ops == Operands(expr.items[1]) IN
           result = Ok(Document(<<Text([i \in 1..Len(ops) |-> SpanOf(ops[i])])>>))

C4_Witness ==
    /\ Resolved
    /\ TextRoot
    /\ result.ok
    /\ Len(result.val.contents[1].spans) = 3
    /\ result.val.contents[1].spans[1] = RawString(sA)
    /\ result.val.contents[1].spans[2] = WebLink(sA, sB)
    /\ result.val.contents[1].spans[3] = PostLink(u32(5), u32(7), u32(9))

\* C5: a root that is no Tuple, and a bare Integer or Literal at item
\* position, fail with IllegalElement; a bare String at item position
\* becomes a Text of the one Raw span holding it.
C5_BareElements ==
    Resolved =>
        /\ expr.tag # "Tuple" => result = Err(IllegalElement)
        /\ expr.tag = "Tuple" =>
              \A i \in 1..Len(expr.items) :
                  /\ (/\ expr.items[i].tag \in {"Integer", "Literal"}
                      /\ \A j \in 1..(i - 1) : expr.items[j].tag = "String")
                        => result = Err(IllegalElement)
                  /\ (result.ok /\ expr.items[i].tag = "String")
                        => result.val.contents[i] = Text(<<RawString(expr.items[i].str)>>)
        /\ (ListRoot /\ Len(expr.items[1].items) >= 2
                     /\ expr.items[1].items[2].tag \in {"Integer", "Literal"})
              => result = Err(IllegalElement)

C5_Witness ==
    /\ Resolved
    /\ expr = Tuple(<<String(sA), Integer(u32(5))>>)
    /\ result = Err(IllegalElement)

\* an image entry as the grammar has it, the entry it stands for, and an
\* entry that is no Tuple or whose path or caption is no String
WellFormedEntry(e) ==
    /\ e.tag = "Tuple"
    /\ Len(e.items) \in {1, 2}
    /\ \A i \in 1..Len(e.items) : e.items[i].tag = "String"

EntryOf(e) ==
    ImageItem(e.items[1].str, IF Len(e.items) = 2 THEN Some(e.items[2].str) ELSE None)

IllFormedEntry(e) ==
    \/ e.tag # "Tuple"
    \/ e.tag = "Tuple" /\ Len(e.items) >= 1 /\ e.items[1].tag # "String"
    \/ e.tag = "Tuple" /\ Len(e.items) >= 2 /\ e.items[1].tag = "String"
                       /\ e.items[2].tag # "String"

\* C7: (img T e1 ... en) and (image T e1 ... en) yield Images with title T
\* and the n entries in order, each with its path and its caption or none;
\* no operand gives OperandMismatch, a title that is no String gives
\* IllegalElement, and so does an entry that is no Tuple or whose path or
\* caption is no String.
C7_Images ==
    (Resolved /\ ImageRoot) =>
        LET ops == Operands(expr.items[1])
            n == Len(ops) - 1 IN
        /\ Len(ops) = 0 => result = Err(OperandMismatch)
        /\ (Len(ops) >= 1 /\ ops[1].tag # "String") => result = Err(IllegalElement)
        /\ (Len(ops) >= 1 /\ ops[1].tag = "String"
                          /\ \A i \in 1..n : WellFormedEntry(ops[i + 1]))
              => result = Ok(Document(<<Images(ops[1].str, [i \in 1..n |-> EntryOf(ops[i + 1])])>>))
        /\ (Len(ops) >= 1 /\ ops[1].tag = "String"
                          /\ \E i \in 1..n : /\ IllFormedEntry(ops[i + 1])
                                             /\ \A j \in 1..(i - 1) : WellFormedEntry(ops[j + 1]))
              => result = Err(IllegalElement)

C7_Witness ==
    /\ Resolved
    /\ ImageRoot
    /\ result = Ok(Document(<<Images(sA, <<ImageItem(sA, None), ImageItem(sB, Some(sA))>>)>>))

\* a Header among the elements of a List item, at any depth of lists
RECURSIVE HeaderInList(_)
HeaderInList(item) ==
    /\ item.tag = "List"
    /\ \E i \in 1..Len(item.items) :
          item.items[i].tag = "Header" \/ HeaderInList(item.items[i])

\* C8: no Document the resolver returns holds a Header as an element of a
\* List, at any depth, so the list writer never reaches its unreachable arm.
C8_NoHeaderInList ==
    (Resolved /\ result.ok) =>
        /\ \A i \in 1..Len(result.val.contents) : ~HeaderInList(result.val.contents[i])
        /\ ~generate_daily_unreachable(result.val)

C8_Witness ==
    /\ Resolved
    /\ result.ok
    /\ expr = Tuple(<<App(kw_li, <<String(sA), App(kw_list, <<App(kw_txt, <<String(sB)>>)>>)>>)>>)
    /\ result.val.contents[1].tag = "List"
    /\ result.val.contents[1].items[2].tag = "List"

\* C9: a root Tuple of n elements gives a Document of exactly n items, item
\* i resolving element i, or else the error of the leftmost element that
\* fails, and nothing in between; so it is for the spans of a txt.
C9_AllOrLeftmostError ==
    /\ ~Resolved => result = NoResult
    /\ (Resolved /\ expr.tag = "Tuple") =>
          LET rs == [i \in 1..Len(expr.items) |-> parse_top_expr(expr.items[i])]
              failing == {i \in 1..Len(expr.items) : ~rs[i].ok} IN
          IF failing = {}
          THEN /\ result.ok
               /\ Len(result.val.contents) = Len(expr.items)
               /\ \A i \in 1..Len(expr.items) : result.val.contents[i] = rs[i].val
          ELSE result = rs[Least(failing)]
    /\ (Resolved /\ TextRoot) =>
          LET ops == Operands(expr.items[1])
              rs == [i \in 1..Len(ops) |-> parse_text_item(ops[i])]
              failing == {i \in 1..Len(ops) : ~rs[i].ok} IN
          failing # {} => result = rs[Least(failing)]

C9_Witness ==
    /\ Resolved
    /\ expr = Tuple(<<String(sA), App(lit_foo, <<>>), Integer(u32(5))>>)
    /\ result = Err(UnknownOperator(lit_foo))

\* C6: a backquoted token as an element of the root and as an operand of
\* txt is read and resolved to a Code span, the first wrapped in a Text of
\* its own; in neither place is it rejected.
C6_CodeStringAccepted ==
    /\ (input = CodeItemInput /\ Finished) => outcome.ok
    /\ (input = CodeSpanInput /\ Finished) => outcome.ok
    /\ (input \in {CodeItemInput, CodeSpanInput} /\ Resolved)
          => result = Ok(Document(<<Text(<<Code(<<120>>)>>)>>))

\* n tuples, each but the innermost holding exactly the next one
RECURSIVE NestedTuples(_)
NestedTuples(n) == IF n <= 1 THEN Tuple(<<>>) ELSE Tuple(<<NestedTuples(n - 1)>>)

\* C10: reading N '(' followed by N ')' succeeds, for every N from 1 to
\* MaxDepth, with the Tuples nested to depth exactly N, each outer one
\* holding one element and the innermost none: the reader always has a
\* step to take until it returns, and what it returns is that tree.
C10_NestedParens ==
    input \in ParenInputs =>
        /\ Running => ENABLED ReaderStep
        /\ ~Running => outcome = Ok(EocExpression(NestedTuples(Len(input) \div 2)))

C10_Witness ==
    /\ input = Parens(40)
    /\ outcome = Ok(EocExpression(NestedTuples(40)))

----------------------------------------------------------------------------
(* Vocabulary of the properties: the tokens of the textual grammar *)

\* the first byte of the source, or 0 when the source is empty
FirstByte == IF Len(input) >= 1 THEN input[1] ELSE 0
SecondByte == IF Len(input) >= 2 THEN input[2] ELSE 0

\* what the grammar makes of the bytes of b from index i on, i standing
\* right after an opening quote: the text up to the closing quote with \\
\* and \" unescaped, an escape of another byte, or no closing quote at all
RECURSIVE QuotedToken(_, _, _)
QuotedToken(b, i, acc) ==
    IF i > Len(b) THEN [kind |-> "open"]
    ELSE IF b[i] = QUOTE THEN [kind |-> "string", str |-> acc, next |-> i + 1]
    ELSE IF b[i] # BACKSLASH THEN QuotedToken(b, i + 1, Append(acc, b[i]))
    ELSE IF i + 1 > Len(b) THEN [kind |-> "open"]
    ELSE IF b[i + 1] \in {BACKSLASH, QUOTE} THEN QuotedToken(b, i + 2, Append(acc, b[i + 1]))
    ELSE [kind |-> "bad", chr |-> b[i + 1]]

\* the value of a quoted token whose bytes are s
StringValue(s) == IF Utf8From(s, 1) THEN Ok(EocExpression(String(s))) ELSE Err(Utf8Error)

\* C11: a double-quoted token reads as String of the bytes between the
\* quotes with \\ and \" unescaped and every other byte, '(' ')' whitespace
\* and backquote included, copied as it is; a backslash before any other byte
\* fails with UnexpectedCharacter of that byte; after success the cursor
\* stands right after the closing quote.  (Bytes that are no UTF-8 text give
\* Utf8Error.)  Checked for a token that is the whole source, and for one
\* that is the only element of a tuple.
C11_StringToken ==
    /\ (Finished /\ FirstByte = QUOTE) =>
          LET t == QuotedToken(input, 2, <<>>) IN
          /\ t.kind = "string" => (outcome = StringValue(t.str) /\ pos = t.next)
          /\ t.kind = "bad" => outcome = Err(UnexpectedCharacter(t.chr))
    /\ (Finished /\ FirstByte = LPAREN /\ SecondByte = QUOTE) =>
          LET t == QuotedToken(input, 3, <<>>) IN
          /\ (t.kind = "string" /\ t.next = Len(input) /\ input[Len(input)] = RPAREN
                                /\ Utf8From(t.str, 1))
                => outcome = Ok(EocExpression(Tuple(<<String(t.str)>>)))
          /\ t.kind = "bad" => outcome = Err(UnexpectedCharacter(t.chr))

C11_Witness ==
    /\ input = StringInTupleInput
    /\ outcome = Ok(EocExpression(Tuple(<<String(<<40, 41, 32, 96, 92, 34>>)>>)))

\* the CodeString variant of the specification's Expression
CodeString(s) == [tag |-> "CodeString", str |-> s]

\* C12: a backquote-delimited token reads as CodeString of the bytes between
\* the backquotes; `backquoted` yields CodeString("backquoted"), and neither
\* a bare byte nor UnexpectedCharacter.
C12_CodeStringToken ==
    /\ (input = BackquotedInput /\ Finished)
          => outcome = Ok(EocExpression(CodeString(SubSeq(input, 2, Len(input) - 1))))
    /\ (input = CodeItemInput /\ Finished)
          => outcome = Ok(EocExpression(Tuple(<<CodeString(<<120>>)>>)))

\* C13: a run of digits reads as Integer of its decimal value and needs no
\* terminator: it may be followed by any byte that is no digit, or by the
\* end of the source, so 1234567890 reads as Integer(1234567890).
C13_DigitsToken ==
    /\ (input = DigitsInput /\ Finished)
          => outcome = Ok(EocExpression(Integer(u32(1234567890))))
    /\ (input = <<49>> /\ Finished) => outcome = Ok(EocExpression(Integer(u32(1))))
    /\ (input = <<49, 32>> /\ Finished) => outcome = Ok(EocExpression(Integer(u32(1))))
    /\ (input = <<40, 49, 41>> /\ Finished)
          => outcome = Ok(EocExpression(Tuple(<<Integer(u32(1))>>)))

\* C14: a token that starts with a letter reads as Literal of the longest
\* run of letters and digits; the byte that ends it need not be whitespace
\* and stays unread: (h) reads as Tuple([Literal(h)]), (b"x") as
\* Tuple([Literal(b), String(x)]), and literal as Literal(literal).
C14_LiteralToken ==
    /\ (input = HeadOnlyInput /\ Finished)
          => outcome = Ok(EocExpression(Tuple(<<Literal(kw_h)>>)))
    /\ (input = BoldInput /\ Finished)
          => outcome = Ok(EocExpression(Tuple(<<Literal(kw_b), String(<<120>>)>>)))
    /\ (input = LiteralInput /\ Finished)
          => outcome = Ok(EocExpression(Literal(LiteralInput)))

\* how many of the first k bytes of the source are byte c
Count(c, k) == Cardinality({i \in 1..k : input[i] = c})

OnlyWhitespace == Len(input) >= 1 /\ \A i \in 1..Len(input) : IsWhitespace(input[i])
OnlyParens ==
    /\ FirstByte = LPAREN
    /\ \A i \in 1..Len(input) : input[i] \in {LPAREN, RPAREN} \/ IsWhitespace(input[i])

\* the source is parentheses and whitespace and ends inside its first tuple
OpenTuple == OnlyParens /\ \A k \in 1..Len(input) : Count(LPAREN, k) > Count(RPAREN, k)

\* the source is parentheses and whitespace, and its last byte is the ')'
\* that closes its first tuple
ClosedTuple ==
    /\ OnlyParens
    /\ \A k \in 1..(Len(input) - 1) : Count(LPAREN, k) > Count(RPAREN, k)
    /\ Count(LPAREN, Len(input)) = Count(RPAREN, Len(input))

\* the source is one string token that nothing closes, or that its last
\* byte closes
OpenString == FirstByte = QUOTE /\ QuotedToken(input, 2, <<>>).kind = "open"
ClosedString ==
    /\ FirstByte = QUOTE
    /\ QuotedToken(input, 2, <<>>).kind = "string"
    /\ QuotedToken(input, 2, <<>>).next = Len(input) + 1
    /\ Utf8From(QuotedToken(input, 2, <<>>).str, 1)

\* C15: the read fails with UnexpectedEOF whenever the source ends inside a
\* string that nothing closed (right after a backslash too), inside a tuple
\* whose ')' was not read, or after nothing but whitespace; it succeeds when
\* the source ends right after the ')' of a complete outermost tuple or the
\* closing quote of a complete outermost string.  Until it returns the
\* reader always has a step to take.
C15_EndOfInput ==
    /\ [](/\ Running => ENABLED ReaderStep
          /\ (Finished /\ (OnlyWhitespace \/ OpenString \/ OpenTuple))
                => outcome = Err(UnexpectedEOF)
          /\ (Finished /\ (ClosedString \/ ClosedTuple))
                => (outcome.ok /\ outcome.val.kind = "Expression"))
    /\ [][(Running /\ ~HasChr /\ (In("parse_string") \/ In("parse_expression")))
              => outcome' = Err(UnexpectedEOF)]_vars

C15_Witness ==
    /\ input = <<QUOTE, 97, BACKSLASH>>
    /\ outcome = Err(UnexpectedEOF)

\* the first byte of the source that is no whitespace, or 0 when there is none
FirstToken ==
    IF \E i \in 1..Len(input) : ~IsWhitespace(input[i])
    THEN input[Least({i \in 1..Len(input) : ~IsWhitespace(input[i])})]
    ELSE 0

\* C16: the read returns an Expression or an error: a byte that starts no
\* token, ')' and '#' among them, met outside any tuple gives
\* UnexpectedCharacter of that byte and never a successful result; inside
\* a tuple ')' closes the tuple and any other such byte gives
\* UnexpectedCharacter of that byte.
C16_BareByteRejected ==
    /\ (Finished /\ outcome.ok) => outcome.val.kind = "Expression"
    /\ (Finished /\ FirstToken # 0 /\ StartsNoToken(FirstToken))
          => outcome = Err(UnexpectedCharacter(FirstToken))
    /\ (Finished /\ Len(input) = 2 /\ FirstByte = LPAREN /\ StartsNoToken(SecondByte))
          => outcome = (IF SecondByte = RPAREN THEN Ok(EocExpression(Tuple(<<>>)))
                        ELSE Err(UnexpectedCharacter(SecondByte)))

\* C17: every tree of Tuples, Literals of letters and digits that start
\* with a letter, ASCII Strings and Integers below 2^32, written in the
\* textual grammar and read back, gives an equal tree.
C17_RoundTrip ==
    Finished =>
        \A t \in RoundTripTrees : input = Written(t) => outcome = Ok(EocExpression(t))

----------------------------------------------------------------------------
(* Vocabulary of the properties: the driver *)

\* the step of the day loop that goes on to the next entry without a day
\* file having been read: the `continue` taken for an empty source
Skipped == pc = "days" /\ pc' = "days" /\ entries' = entries + 1

DayFailure ==
    /\ failure # NoFailure
    /\ failure \notin {IOError("read_dir"), IOError("index"), IOError("create"), IOError("write")}

\* C19: the day files of a month are read, parsed and resolved one after
\* another, and the page of the month is written only after all of them
\* succeeded: while a month's days are processed its page is not written;
\* when a day file fails, the page of that month is not written then or
\* later, and nothing at all is written after any failure; a page is
\* written only from the head of the day loop, with no failure so far, for
\* the month under way.
C19_MonthAllOrNothing ==
    /\ [](/\ pc \in {"days", "day"} =>
                (Len(pages) = month_num - 1 /\ \A i \in 1..Len(pages) : pages[i].month < month_num)
          /\ DayFailure =>
                (pc = "failed" /\ Len(pages) = month_num - 1
                               /\ \A i \in 1..Len(pages) : pages[i].month # month_num))
    /\ [][/\ failure # NoFailure => UNCHANGED <<pages, days, public_img, pc>>
          /\ pages' # pages =>
                (/\ pc = "days" /\ failure = NoFailure
                 /\ Len(pages') = Len(pages) + 1
                 /\ SubSeq(pages', 1, Len(pages)) = pages
                 /\ pages'[Len(pages')].month = month_num
                 /\ \A i \in 1..Len(pages'[Len(pages')].dailies) :
                       days[pages'[Len(pages')].dailies[i].day]
                            = Some(pages'[Len(pages')].dailies[i].doc))]_vars

C19_Witness ==
    /\ pc = "failed"
    /\ failure = SyntaxError(IllegalElement)
    /\ month_num = 2
    /\ Len(pages) = 1 /\ pages[1].month = 1
    /\ days[1] # None

-----------------------------------------------------------------------------
(* Headers in lists, image entries and the head of an application *)

\* a li/list application whose leftmost operand that is no String is a
\* h/header application, or a list that leads to one in the same way
RECURSIVE LeadsToHeader(_)
LeadsToHeader(e) ==
    /\ IsApp(e, {kw_li, kw_list})
    /\ \E i \in 1..Len(Operands(e)) :
          /\ \A j \in 1..(i - 1) : Operands(e)[j].tag = "String"
          /\ \/ IsApp(Operands(e)[i], {kw_h, kw_header})
             \/ LeadsToHeader(Operands(e)[i])

\* C21: a h/header application among the operands of li/list, at any depth
\* of lists and whatever its own operands, makes the resolution fail with
\* IllegalElement.
C21_HeaderInListIllegal ==
    (Resolved /\ SingleRoot /\ LeadsToHeader(expr.items[1]))
        => result = Err(IllegalElement)

\* an image entry holding more than a path and a caption
LongEntry(e) == e.tag = "Tuple" /\ Len(e.items) >= 3

\* C22: an image entry of more than two elements makes the resolution fail.
C22_LongEntryRejected ==
    (Resolved /\ ImageRoot /\ \E i \in 2..Len(Operands(expr.items[1])) :
                                  LongEntry(Operands(expr.items[1])[i]))
        => ~result.ok

\* a non-empty tuple whose first element is no Literal
HeadIsNotLiteral(e) ==
    /\ e.tag = "Tuple"
    /\ Len(e.items) >= 1
    /\ e.items[1].tag # "Literal"

\* a tuple whose first element is a Literal
HeadIsLiteral(e) == e.tag = "Tuple" /\ Len(e.items) >= 1 /\ e.items[1].tag = "Literal"

\* the tuples of a tree: the tree itself and the tuples below it
RECURSIVE TuplesOf(_)
TuplesOf(e) ==
    IF e.tag # "Tuple" THEN {}
    ELSE {e} \cup UNION {TuplesOf(e.items[i]) : i \in 1..Len(e.items)}

\* C23: a non-empty tuple whose head is a String, an Integer or a Tuple has
\* no operator, and at item, list-item and span position the resolution
\* fails with IllegalElement; a tuple whose head is a Literal has that
\* literal's text as operator and exactly the elements after the head, in
\* order, as operands.
C23_ApplicationView ==
    Resolved =>
        /\ \A t \in TuplesOf(expr) :
              /\ HeadIsNotLiteral(t) => rator(t.items) = None
              /\ HeadIsLiteral(t) =>
                    /\ rator(t.items) = Some(t.items[1].name)
                    /\ Len(into_rand_iter(t.items)) = Len(t.items) - 1
                    /\ \A i \in 1..(Len(t.items) - 1) :
                          into_rand_iter(t.items)[i] = t.items[i + 1]
        /\ (expr.tag = "Tuple" /\ Len(expr.items) >= 1 /\ HeadIsNotLiteral(expr.items[1]))
              => result = Err(IllegalElement)
        /\ ((TextRoot \/ ListRoot) /\ Len(expr.items[1].items) >= 2
                                   /\ HeadIsNotLiteral(expr.items[1].items[2]))
              => result = Err(IllegalElement)

C23_Witness ==
    /\ Resolved
    /\ expr = Tuple(<<Tuple(<<Integer(u32(5)), String(sA)>>)>>)
    /\ result = Err(IllegalElement)

-----------------------------------------------------------------------------
(* Integer reading and the end of every read *)

\* runs of digits with the value of each modulo 2^32, as its two halves:
\* 4294967296, 4294967295, 1234567890, 007, 000000000001, 1, 11 and 111
DigitRuns ==
    {<<<<52, 50, 57, 52, 57, 54, 55, 50, 57, 54>>, <<0, 0>>>>,
     <<<<52, 50, 57, 52, 57, 54, 55, 50, 57, 53>>, <<65535, 65535>>>>,
     <<<<48, 48, 55>>, u32(7)>>,
     <<<<48, 48, 48, 48, 48, 48, 48, 48, 48, 48, 48, 49>>, u32(1)>>,
     <<<<49>>, u32(1)>>,
     <<<<49, 49>>, u32(11)>>,
     <<<<49, 49, 49>>, u32(111)>>}

\* C24: a run of digits of any length, with or without leading zeros, reads
\* without failure as Integer of its decimal value modulo 2^32.
C24_IntegerWraps ==
    \A p \in DigitRuns :
        (input = p[1] \o <<32>> /\ Finished) => outcome = Ok(EocExpression(Integer(p[2])))

\* what is left to do: the bytes from the cursor on, counted twice, and the
\* return of the number or literal being read
Remaining ==
    2 * (Len(input) + 1 - pos)
    + (IF In("parse_number") \/ In("parse_literal") THEN 1 ELSE 0)

-----------------------------------------------------------------------------
(* date.rs: Date::new and Date::weekday_ja, as post_gen.rs uses them for   *)
(* the heading of a day                                                    *)

MaxYears == 6         \* how many years from 1999 on are tried, besides 1899..1901

Date(year, month, day) == [year |-> year, month |-> month, day |-> day]

(* date.rs: Date::new *)
Date_new(year, month, day) ==
    CASE month \in {1, 3, 5, 7, 8, 10, 12} ->
            IF day < 1 \/ day > 31 THEN None ELSE Some(Date(year, month, day))
      [] month \in {4, 6, 9, 11} ->
            IF day < 1 \/ day > 30 THEN None ELSE Some(Date(year, month, day))
      [] month = 2 ->
            LET is_leap == (year % 4 = 0 /\ year % 100 # 0) \/ year % 400 = 0 IN
            IF day < 1 \/ day > (IF is_leap THEN 29 ELSE 28) THEN None
            ELSE Some(Date(year, month, day))
      [] OTHER -> None

(* date.rs: the names weekday_ja returns, by the arm of its match: the     *)
(* characters for Monday (U+6708), Tuesday (U+706B), Wednesday (U+6C34),   *)
(* Thursday (U+6728), Friday (U+91D1), Saturday (U+571F), Sunday (U+65E5)  *)
WeekdayName(d) ==
    CASE d = 1 -> "getsu"
      [] d = 2 -> "ka"
      [] d = 3 -> "sui"
      [] d = 4 -> "moku"
      [] d = 5 -> "kin"
      [] d = 6 -> "do"
      [] d = 7 -> "nichi"
      [] OTHER -> "unreachable"

(* date.rs: Date::weekday_ja *)
weekday_ja(self) ==
    LET month == IF self.month <= 2 THEN self.month + 12 ELSE self.month
        c == self.year \div 100
        y == self.year % 100
        d == ((self.day + (26 * (month + 1)) \div 10 + y + y \div 4
                + (5 * c + c \div 4) + 5) % 7) + 1 IN
    WeekdayName(d)

(* The dates tried: every month number from 0 to 13 and day number from 0  *)
(* to 32 of the years around two century years, one of them a leap year    *)
Years == (1899..1901) \cup (1999..(1998 + MaxYears))
DateInputs == {<<y, m, d>> : y \in Years, m \in 0..13, d \in 0..32}

InitDate ==
    /\ date \in {[args |-> a] : a \in DateInputs}
    /\ weekday = NoWeekday
    /\ files = NoFiles /\ converted = NoConversion
    /\ pc = "idle" /\ month_num = 0 /\ entries = 0 /\ day_num = 0
    /\ days = NoDays /\ pages = <<>> /\ failure = NoFailure
    /\ public_img = {} /\ seen = {}
    /\ ReaderIdle
    /\ expr = NoExpr /\ result = NoResult

(* post_gen.rs: generate_monthly makes the Date of a day *)
MakeDate ==
    /\ date # NoDate
    /\ "args" \in DOMAIN date
    /\ date' = Date_new(date.args[1], date.args[2], date.args[3])
    /\ UNCHANGED <<weekday, files, converted, resolverVars, readerVars, driverVars>>

(* post_gen.rs: write_date asks the Date for its day of the week *)
WriteDate ==
    /\ "some" \in DOMAIN date
    /\ date.some
    /\ weekday = NoWeekday
    /\ weekday' = weekday_ja(date.val)
    /\ UNCHANGED <<date, files, converted, resolverVars, readerVars, driverVars>>

NextDate == MakeDate \/ WriteDate

SpecDate == InitDate /\ [][NextDate]_vars

(* The calendar: the days from 1 January of year 1, a Monday, to a date *)
IsLeapYear(y) == (y % 4 = 0 /\ y % 100 # 0) \/ y % 400 = 0
DaysOfMonth(y, m) ==
    CASE m \in {4, 6, 9, 11} -> 30
      [] m = 2 -> IF IsLeapYear(y) THEN 29 ELSE 28
      [] OTHER -> 31
RECURSIVE DaysBeforeMonth(_, _)
DaysBeforeMonth(y, m) ==
    IF m = 1 THEN 0 ELSE DaysBeforeMonth(y, m - 1) + DaysOfMonth(y, m - 1)
DaysBeforeYear(y) ==
    365 * (y - 1) + (y - 1) \div 4 - (y - 1) \div 100 + (y - 1) \div 400
\* 1 for Monday ... 7 for Sunday
DayOfWeek(dt) ==
    ((DaysBeforeYear(dt.year) + DaysBeforeMonth(dt.year, dt.month) + dt.day - 1) % 7) + 1

\* C28: for every date Date::new accepts, weekday_ja names the day of the
\* week the date falls on in the Gregorian calendar, Monday first, also in
\* January and February, and never takes its unreachable arm.
C28_WeekdayOfDate ==
    weekday # NoWeekday =>
        /\ weekday # "unreachable"
        /\ weekday = WeekdayName(DayOfWeek(date.val))

-----------------------------------------------------------------------------
(* albums.rs: parse_albums, the resolver of the album index.  It goes      *)
(* through match_keyword! of syntax_error.rs, whose expect_application is  *)
(* not in the sources at hand and is taken from the contract of the        *)
(* application view: the head literal's text and the elements after it,    *)
(* MissingOperator for an empty tuple, HeadIsNotLiteral otherwise.         *)

MaxAlbums == 2        \* most albums of an artist

HeadIsNotLiteralError == [kind |-> "HeadIsNotLiteral"]
MissingOperatorError == [kind |-> "MissingOperator"]

expect_application(ve) ==
    IF Len(ve) = 0 THEN Err(MissingOperatorError)
    ELSE IF ve[1].tag # "Literal" THEN Err(HeadIsNotLiteralError)
    ELSE Ok([rator |-> ve[1].name, rand |-> Tail(ve)])

(* syntax_error.rs: match_keyword! and match_keyword_mut!, with the arms   *)
(* given as the set of their patterns and what they do                     *)
match_keyword(ve, patt, then(_, _)) ==
    IF expect_application(ve).ok
    THEN IF expect_application(ve).val.rator \in patt
         THEN then(expect_application(ve).val.rator, expect_application(ve).val.rand)
         ELSE unknown_operator(expect_application(ve).val.rator)
    ELSE IF expect_application(ve).err = MissingOperatorError THEN Err(MissingOperator)
    ELSE Err(IllegalElement)

kw_artist == <<97, 114, 116, 105, 115, 116>>
kw_studio == <<115, 116, 117, 100, 105, 111>>
kw_livealbum == <<108, 105, 118, 101, 97, 108, 98, 117, 109>>
kw_compilation == <<99, 111, 109, 112, 105, 108, 97, 116, 105, 111, 110>>
kw_studioandlive == <<115, 116, 117, 100, 105, 111, 97, 110, 100, 108, 105, 118, 101>>
kw_concert == <<99, 111, 110, 99, 101, 114, 116>>

(* albums.rs: AlbumKind by the keyword of parse_album's arm *)
AlbumKind(k) ==
    CASE k = kw_studio -> "StudioAlbum"
      [] k = kw_livealbum -> "LiveAlbum"
      [] k = kw_compilation -> "Compilation"
      [] k = kw_studioandlive -> "StudioAndLive"
      [] k = kw_concert -> "Concert"

Album(name, published_at, link_to_diary) ==
    [name |-> name, published_at |-> published_at, link_to_diary |-> link_to_diary]
Artist(name, albums) == [name |-> name, albums |-> albums]
AlbumIndex(artists) == [artists |-> artists]

\* the value of a u32 kept as two halves
to_nat(n) == n[1] * Half + n[2]

(* Option::unwrap: the value, or the panic that ends the program *)
unwrap(o) == IF o.some THEN Ok(o.val) ELSE Err(Panic)

(* albums.rs: parse_date *)
parse_date(e) ==
    and_then(get_rand(e, "Integer", operand_mismatch, illegal_element), LAMBDA year :
    and_then(get_rand(Tail(e), "Integer", operand_mismatch, illegal_element), LAMBDA month :
    and_then(get_rand(Tail(Tail(e)), "Integer", operand_mismatch, illegal_element), LAMBDA day :
        unwrap(Date_new(to_nat(year), to_nat(month), to_nat(day))))))

(* albums.rs: the link to the diary, which may be left out *)
link_to_diary(rand) ==
    IF get_rand(rand, "Tuple", operand_mismatch, illegal_element).ok
    THEN map(parse_date(get_rand(rand, "Tuple", operand_mismatch, illegal_element).val), Some)
    ELSE IF get_rand(rand, "Tuple", operand_mismatch, illegal_element) = operand_mismatch
         THEN Ok(None)
         ELSE get_rand(rand, "Tuple", operand_mismatch, illegal_element)

(* albums.rs: handle of parse_album *)
handle(kind, rand) ==
    and_then(get_rand(rand, "String", operand_mismatch, illegal_element), LAMBDA name :
    and_then(and_then(get_rand(Tail(rand), "Tuple", operand_mismatch, illegal_element), parse_date),
             LAMBDA published_at :
    and_then(link_to_diary(Tail(Tail(rand))), LAMBDA link :
        Ok([kind |-> kind, album |-> Album(name, published_at, link)]))))

(* albums.rs: parse_album *)
parse_album(e) ==
    and_then(ok_or(unwrap_expr(e, "Tuple"), Err(IllegalElement)), LAMBDA l :
        match_keyword(l, {kw_studio, kw_livealbum, kw_compilation, kw_studioandlive, kw_concert},
                      LAMBDA op, rand : handle(AlbumKind(op), rand)))

(* derive(Ord) of Date and Ord of Album: by year, then month, then day *)
date_le(a, b) ==
    \/ a.year < b.year
    \/ a.year = b.year /\ a.month < b.month
    \/ a.year = b.year /\ a.month = b.month /\ a.day <= b.day

(* Ord of String: byte by byte, a prefix first *)
RECURSIVE str_le(_, _)
str_le(a, b) ==
    IF Len(a) = 0 THEN TRUE
    ELSE IF Len(b) = 0 THEN FALSE
    ELSE IF Head(a) # Head(b) THEN Head(a) < Head(b)
    ELSE str_le(Tail(a), Tail(b))

AlbumList_len(albums) ==
    Len(albums.studio_album) + Len(albums.live_album) + Len(albums.studio_and_live)
    + Len(albums.compilation) + Len(albums.concert)

(* Ord of Artist: more albums first, then by name *)
artist_le(a, b) ==
    \/ AlbumList_len(a.albums) > AlbumList_len(b.albums)
    \/ AlbumList_len(a.albums) = AlbumList_len(b.albums) /\ str_le(a.name, b.name)

(* slice::sort, which is stable: each element goes behind those not after it *)
RECURSIVE insert_album(_, _)
insert_album(s, x) ==
    IF Len(s) = 0 THEN <<x>>
    ELSE IF date_le(Head(s).published_at, x.published_at) THEN <<Head(s)>> \o insert_album(Tail(s), x)
    ELSE <<x>> \o s
RECURSIVE sort_albums(_)
sort_albums(s) ==
    IF Len(s) = 0 THEN <<>>
    ELSE insert_album(sort_albums(SubSeq(s, 1, Len(s) - 1)), s[Len(s)])

RECURSIVE insert_artist(_, _)
insert_artist(s, x) ==
    IF Len(s) = 0 THEN <<x>>
    ELSE IF artist_le(Head(s), x) THEN <<Head(s)>> \o insert_artist(Tail(s), x)
    ELSE <<x>> \o s
RECURSIVE sort_artists(_)
sort_artists(s) ==
    IF Len(s) = 0 THEN <<>>
    ELSE insert_artist(sort_artists(SubSeq(s, 1, Len(s) - 1)), s[Len(s)])

\* the albums of one kind, in the order met
RECURSIVE of_kind(_, _)
of_kind(pairs, kind) ==
    IF Len(pairs) = 0 THEN <<>>
    ELSE (IF Head(pairs).kind = kind THEN <<Head(pairs).album>> ELSE <<>>)
         \o of_kind(Tail(pairs), kind)

(* albums.rs: AlbumList, filled by the loop of parse_artist and sorted *)
AlbumList(pairs) ==
    [studio_album |-> sort_albums(of_kind(pairs, "StudioAlbum")),
     live_album |-> sort_albums(of_kind(pairs, "LiveAlbum")),
     studio_and_live |-> sort_albums(of_kind(pairs, "StudioAndLive")),
     compilation |-> sort_albums(of_kind(pairs, "Compilation")),
     concert |-> sort_albums(of_kind(pairs, "Concert"))]

(* albums.rs: parse_artist *)
parse_artist(e) ==
    and_then(ok_or(unwrap_expr(e, "Tuple"), Err(IllegalElement)), LAMBDA l :
        match_keyword(l, {kw_artist}, LAMBDA op, rand :
            and_then(get_rand(rand, "String", operand_mismatch, illegal_element), LAMBDA name :
                map(collect([i \in 1..(Len(rand) - 1) |-> parse_album(rand[i + 1])], <<>>),
                    LAMBDA pairs : Artist(name, AlbumList(pairs))))))

(* albums.rs: parse_top_list *)
albums_parse_top_list(list) ==
    collect([i \in 1..Len(list) |-> parse_artist(list[i])], <<>>)

(* albums.rs: parse_albums *)
parse_albums(e) ==
    IF e.tag = "Tuple"
    THEN map(albums_parse_top_list(e.items), LAMBDA artists : AlbumIndex(sort_artists(artists)))
    ELSE illegal_element

(* The album trees resolved *)
DateTuple(y, m, d) == Tuple(<<Integer(u32(y)), Integer(u32(m)), Integer(u32(d))>>)

AlbumPool ==
    {App(kw_studio, <<String(sA), DateTuple(2001, 2, 28)>>),
     App(kw_concert, <<String(sB), DateTuple(2000, 2, 29), DateTuple(2000, 12, 31)>>),
     App(kw_studio, <<String(sB), DateTuple(1999, 13, 1)>>),
     App(kw_livealbum, <<String(sA), DateTuple(2001, 2, 30)>>),
     App(kw_compilation, <<String(sA), DateTuple(2001, 4, 30), DateTuple(2001, 4, 31)>>),
     App(kw_studioandlive, <<String(sA), DateTuple(2001, 1, 0)>>),
     App(kw_studio, <<String(sA), DateTuple(2000, 1, 1), String(sB)>>),
     App(kw_studio, <<String(sA), Tuple(<<Integer(u32(2000)), String(sA), Integer(u32(1))>>)>>),
     App(kw_studio, <<String(sA)>>),
     App(lit_foo, <<String(sA), DateTuple(2000, 1, 1)>>),
     Tuple(<<>>), Tuple(<<String(sA)>>), String(sA)}

ArtistPool ==
    {App(kw_artist, <<String(n)>> \o s) : n \in {sA, sB}, s \in SeqsUpTo(AlbumPool, MaxAlbums)}
    \cup {App(kw_artist, <<>>), App(kw_artist, <<Integer(u32(5))>>), App(lit_foo, <<String(sA)>>),
          Tuple(<<>>), Tuple(<<String(sA)>>), String(sA)}

AlbumInputs ==
    {Tuple(<<a>>) : a \in ArtistPool}
    \cup {Tuple(<<App(kw_artist, <<String(n)>>), a>>) : n \in {sA, sB}, a \in ArtistPool}
    \cup {Tuple(<<>>), String(sA), Integer(u32(5))}

InitAlbums ==
    /\ expr \in AlbumInputs
    /\ result = NoResult
    /\ ReaderIdle
    /\ DriverIdle

(* the caller of parse_albums hands it the tree read from the album file *)
ParseAlbums ==
    /\ expr # NoExpr
    /\ result = NoResult
    /\ result' = parse_albums(expr)
    /\ UNCHANGED <<expr, readerVars, driverVars, otherVars>>

NextAlbums == ParseAlbums

SpecAlbums == InitAlbums /\ [][NextAlbums]_vars

\* C29: parse_albums returns an album index or an error value for every
\* tree and never panics; three Integers that form no calendar date give an
\* error value.
C29_AlbumsNeverPanic ==
    Resolved => (result.ok \/ result.err # Panic)

-----------------------------------------------------------------------------
(* image.rs: ImageConverter::convert_image on one file name.  A file is    *)
(* None when it does not exist.  The source image holds its hash and       *)
(* whether it decodes as WebP; the hash file holds a hash; a thumbnail     *)
(* holds the hash of the image it was made from.                           *)

MaxHash == 2          \* how many different image contents there are

Hashes == 1..MaxHash
Image(hash, webp) == [hash |-> hash, webp |-> webp]
Files(src, cache_hash, cache_thumbnail, dst_thumbnail, dst_actual) ==
    [src |-> src, cache_hash |-> cache_hash, cache_thumbnail |-> cache_thumbnail,
     dst_thumbnail |-> dst_thumbnail, dst_actual |-> dst_actual]

\* the call of convert_image: where it stands, its locals, and for the
\* properties the files it started from, how often it made a thumbnail
\* and whether the cached thumbnail was removed under it
Call(at, c) == [c EXCEPT !.at = at]
Returned_from(c, r) == [c EXCEPT !.at = "returned", !.ret = r]

(* image.rs: ImageSize, the dimensions of the thumbnail of an image *)
ImageSize(hash) == [thumbnail_of |-> hash]

FileStates ==
    {Files(s, h, t, dt, da) :
        s \in {None} \cup {Some(Image(x, w)) : x \in Hashes, w \in BOOLEAN},
        h \in {None} \cup {Some(x) : x \in Hashes},
        t \in {None} \cup {Some(x) : x \in Hashes},
        dt \in {None, Some(1)},
        da \in {None, Some(1)}}

InitImage ==
    /\ files \in FileStates
    /\ converted = [at |-> "cache_hash", before |-> files, made |-> 0, lost |-> FALSE,
                    cache_hash |-> None, hash |-> 0, size |-> None, ret |-> None]
    /\ date = NoDate /\ weekday = NoWeekday
    /\ pc = "idle" /\ month_num = 0 /\ entries = 0 /\ day_num = 0
    /\ days = NoDays /\ pages = <<>> /\ failure = NoFailure
    /\ public_img = {} /\ seen = {}
    /\ ReaderIdle
    /\ expr = NoExpr /\ result = NoResult

InCall(at) == converted # NoConversion /\ converted.at = at

(* image.rs:95-111: the cached hash is read, None when there is no hash    *)
(* file, and the hash of the source is computed                            *)
ReadHashes ==
    /\ InCall("cache_hash")
    /\ IF files.src.some
       THEN converted' = [Call("size", converted) EXCEPT !.cache_hash = files.cache_hash,
                                                          !.hash = files.src.val.hash]
       ELSE converted' = Returned_from(converted, Err(IOError("calc_hash")))
    /\ UNCHANGED <<files, date, weekday, resolverVars, readerVars, driverVars>>

(* image.rs:113-128: with the cached hash equal to the source's the size   *)
(* of the cached thumbnail is read; otherwise the hash is saved and the    *)
(* thumbnail generated, which fails on a source that does not decode       *)
SizeOrThumbnail ==
    /\ InCall("size")
    /\ IF converted.cache_hash = Some(converted.hash)
       THEN /\ IF files.cache_thumbnail.some
               THEN converted' = [Call("copy", converted) EXCEPT
                                     !.size = Some(ImageSize(files.cache_thumbnail.val))]
               ELSE converted' = Returned_from(converted, Err(ImageError))
            /\ UNCHANGED files
       ELSE IF files.src.val.webp
            THEN /\ files' = [files EXCEPT !.cache_hash = Some(converted.hash),
                                           !.cache_thumbnail = Some(converted.hash)]
                 /\ converted' = [Call("copy", converted) EXCEPT
                                     !.size = Some(ImageSize(converted.hash)),
                                     !.made = converted.made + 1]
            ELSE /\ files' = [files EXCEPT !.cache_hash = Some(converted.hash)]
                 /\ converted' = Returned_from(converted, Err(ImageError))
    /\ UNCHANGED <<date, weekday, resolverVars, readerVars, driverVars>>

(* the cache directory is shared: the cached thumbnail is removed by       *)
(* someone else between the reading of its size and its copy               *)
LoseThumbnail ==
    /\ InCall("copy")
    /\ files.cache_thumbnail.some
    /\ files' = [files EXCEPT !.cache_thumbnail = None]
    /\ converted' = [converted EXCEPT !.lost = TRUE]
    /\ UNCHANGED <<date, weekday, resolverVars, readerVars, driverVars>>

(* image.rs:130-149: the cached thumbnail is copied to the output; when    *)
(* it is not found it is generated again and then copied                   *)
CopyThumbnail ==
    /\ InCall("copy")
    /\ IF files.cache_thumbnail.some
       THEN /\ files' = [files EXCEPT !.dst_thumbnail = files.cache_thumbnail]
            /\ converted' = Call("actual", converted)
       ELSE IF files.src.val.webp
            THEN /\ files' = [files EXCEPT !.cache_thumbnail = Some(converted.hash),
                                           !.dst_thumbnail = Some(converted.hash)]
                 /\ converted' = [Call("actual", converted) EXCEPT !.made = converted.made + 1]
            ELSE /\ files' = files
                 /\ converted' = Returned_from(converted, Err(ImageError))
    /\ UNCHANGED <<date, weekday, resolverVars, readerVars, driverVars>>

(* image.rs:150-155: the source is copied to the output *)
CopyActual ==
    /\ InCall("actual")
    /\ files' = [files EXCEPT !.dst_actual = Some(converted.hash)]
    /\ converted' = Returned_from(converted, Ok(converted.size.val))
    /\ UNCHANGED <<date, weekday, resolverVars, readerVars, driverVars>>

NextImage == ReadHashes \/ SizeOrThumbnail \/ LoseThumbnail \/ CopyThumbnail \/ CopyActual

SpecImage == InitImage /\ [][NextImage]_vars

ConversionDone == InCall("returned")

\* the call started with the hash file holding the hash of a source that
\* decodes, and with no cached thumbnail
LostThumbnail(f) ==
    /\ f.src.some /\ f.src.val.webp
    /\ f.cache_hash = Some(f.src.val.hash)
    /\ ~f.cache_thumbnail.some

\* C30: a call that starts with the cached hash equal to the hash of the
\* source and no cached thumbnail makes the thumbnail again from the
\* source, copies it to the output and returns Ok; after every successful
\* call the stored hash is the hash of the source; and a thumbnail is made
\* only when the hash was absent or different or the thumbnail was missing.
C30_LostThumbnailRecovered ==
    ConversionDone =>
        /\ LostThumbnail(converted.before) =>
              /\ converted.ret.ok
              /\ converted.made >= 1
              /\ files.cache_thumbnail = Some(files.src.val.hash)
              /\ files.dst_thumbnail = Some(files.src.val.hash)
        /\ converted.ret.ok => files.cache_hash = Some(files.src.val.hash)
        /\ converted.made >= 1 =>
              \/ converted.before.cache_hash # Some(converted.hash)
              \/ ~converted.before.cache_thumbnail.some
              \/ converted.lost

-----------------------------------------------------------------------------
(* sexp.rs: parse, the older parser that builds the Document straight from *)
(* the bytes.  It runs on the same cursor variables as the reader: input   *)
(* and pos are ParseCtx's bytes and chr, stack holds its pending calls     *)
(* (each with the stage it is at and what it has gathered), outcome is     *)
(* what parse returned.                                                    *)

(* sexp.rs: Error::ParseError *)
SexpParseError == [kind |-> "ParseError"]

CtxFrame(fn, at, acc) == [fn |-> fn, at |-> at, acc |-> acc]
Unit == <<>>

\* where a turn of a loop leaves the parser: the cursor, the pending calls,
\* and the outcome once the outermost call has returned
Going(p, s) == [pos |-> p, stack |-> s, outcome |-> NoOutcome]
Failing(p, e) == [pos |-> p, stack |-> <<>>, outcome |-> Err(e)]

(* sexp.rs: parse_expr and parse_text_item on the keyword read *)
Dispatch(p, rest, c, keyword) ==
    IF c.fn = "ctx.parse_expr"
    THEN CASE keyword \in {kw_txt, kw_text} ->
                Going(p, Append(rest, CtxFrame("ctx.parse_text", "loop", <<>>)))
           [] keyword \in {kw_li, kw_list} ->
                Going(p, rest \o <<CtxFrame("ctx.parse_list", "exprs", Unit),
                                   CtxFrame("ctx.parse_exprs", "loop", <<>>)>>)
           [] keyword \in {kw_h, kw_header} ->
                Going(p, Append(rest, CtxFrame("ctx.parse_header", "string", Unit)))
           [] OTHER -> Failing(p, SexpParseError)
    ELSE CASE keyword = kw_a ->
                Going(p, Append(rest, CtxFrame("ctx.parse_weblink", "title", <<>>)))
           [] keyword = kw_b ->
                Going(p, Append(rest, CtxFrame("ctx.parse_bold", "string", Unit)))
           [] keyword = kw_p ->
                Going(p, Append(rest, CtxFrame("ctx.parse_post", "year", <<>>)))
           [] OTHER -> Failing(p, SexpParseError)

\* a call returns value v, with the cursor at p, to the innermost of the
\* pending calls, which goes on from the stage it made the call at
RECURSIVE Deliver(_, _, _)
Deliver(p, callers, v) ==
    IF Len(callers) = 0 THEN [pos |-> p, stack |-> <<>>, outcome |-> Ok(v)]
    ELSE LET c == callers[Len(callers)]
             rest == SubSeq(callers, 1, Len(callers) - 1) IN
         CASE c.fn = "ctx.parse_root" /\ c.at = "start" ->
                Going(p, rest \o <<CtxFrame("ctx.parse_root", "exprs", Unit),
                                   CtxFrame("ctx.parse_exprs", "loop", <<>>)>>)
           [] c.fn = "ctx.parse_root" /\ c.at = "exprs" -> Deliver(p, rest, Document(v))
           [] c.fn = "ctx.parse_list" -> Deliver(p, rest, List(v))
           [] c.fn = "ctx.parse_exprs" /\ c.at = "expr" ->
                Going(p, Append(rest, CtxFrame(c.fn, "loop", Append(c.acc, v))))
           [] c.fn = "ctx.parse_exprs" /\ c.at = "string" ->
                Going(p, Append(rest, CtxFrame(c.fn, "loop", Append(c.acc, Text(<<RawString(v)>>)))))
           [] c.fn = "ctx.parse_text" /\ c.at = "item" ->
                Going(p, Append(rest, CtxFrame(c.fn, "loop", Append(c.acc, v))))
           [] c.fn = "ctx.parse_text" /\ c.at = "string" ->
                Going(p, Append(rest, CtxFrame(c.fn, "loop", Append(c.acc, RawString(v)))))
           [] c.fn \in {"ctx.parse_expr", "ctx.parse_text_item"} -> Dispatch(p, rest, c, v)
           [] c.fn = "ctx.parse_weblink" /\ c.at = "title" ->
                Going(p, Append(rest, CtxFrame(c.fn, "href", <<v>>)))
           [] c.fn = "ctx.parse_weblink" /\ c.at = "href" ->
                Going(p, Append(rest, CtxFrame(c.fn, "end", Append(c.acc, v))))
           [] c.fn \in {"ctx.parse_bold", "ctx.parse_header"} /\ c.at = "string" ->
                Going(p, rest \o <<CtxFrame(c.fn, "end", v),
                                   CtxFrame("ctx.roll_up_until_end", "loop", Unit)>>)
           [] c.fn = "ctx.parse_bold" /\ c.at = "end" -> Deliver(p, rest, Bold(c.acc))
           [] c.fn = "ctx.parse_header" /\ c.at = "end" -> Deliver(p, rest, Header(c.acc))
           [] c.fn = "ctx.parse_post" /\ c.at = "year" ->
                Going(p, Append(rest, CtxFrame(c.fn, "month", <<v>>)))
           [] c.fn = "ctx.parse_post" /\ c.at = "month" ->
                Going(p, Append(rest, CtxFrame(c.fn, "day", Append(c.acc, v))))
           [] c.fn = "ctx.parse_post" /\ c.at = "day" ->
                Going(p, rest \o <<CtxFrame(c.fn, "end", Append(c.acc, v)),
                                   CtxFrame("ctx.roll_up_until_end", "loop", Unit)>>)
           [] c.fn = "ctx.parse_post" /\ c.at = "end" ->
                Deliver(p, rest, PostLink(c.acc[1], c.acc[2], c.acc[3]))

\* the parser goes where a turn leaves it
Goes(to) ==
    /\ pos' = to.pos
    /\ stack' = to.stack
    /\ outcome' = to.outcome
    /\ UNCHANGED <<input, resolverVars, driverVars, otherVars>>

\* the innermost call makes a call: it waits at stage `at` under the callee
Calling(at, callee) == Append(Callers, [Top EXCEPT !.at = at]) \o callee

(* sexp.rs: parse, with ParseCtx::new taking the first byte *)
Ctx_parse ==
    /\ In("ctx.parse")
    /\ IF Len(input) = 0
       THEN Goes([pos |-> pos, stack |-> <<>>, outcome |-> Ok(Document(<<>>))])
       ELSE Goes(Going(pos, <<CtxFrame("ctx.parse_root", "start", Unit),
                              CtxFrame("ctx.roll_up_until_start", "loop", Unit)>>))

(* sexp.rs: one turn of the loop of roll_up_until_start *)
Ctx_roll_up_until_start ==
    /\ In("ctx.roll_up_until_start")
    /\ Goes(IF ~HasChr THEN Failing(pos, SexpParseError)
            ELSE IF IsWhitespace(Chr) THEN Going(seek(pos), stack)
            ELSE IF Chr = LPAREN THEN Deliver(seek(pos), Callers, Unit)
            ELSE Failing(pos, SexpParseError))

(* sexp.rs: one turn of the loop of parse_exprs *)
Ctx_parse_exprs ==
    /\ In("ctx.parse_exprs")
    /\ Goes(IF ~HasChr THEN Failing(pos, SexpParseError)
            ELSE IF IsWhitespace(Chr) THEN Going(seek(pos), stack)
            ELSE IF Chr = LPAREN
                 THEN Going(seek(pos), Calling("expr", <<CtxFrame("ctx.parse_expr", "keyword", Unit),
                                                        CtxFrame("ctx.parse_keyword", "loop", <<>>)>>))
            ELSE IF Chr = RPAREN THEN Deliver(seek(pos), Callers, Top.acc)
            ELSE IF Chr = QUOTE
                 THEN Going(seek(pos), Calling("string", <<CtxFrame("ctx.parse_string", "loop", <<>>)>>))
            ELSE Failing(pos, SexpParseError))

(* sexp.rs: one turn of the loop of parse_keyword *)
Ctx_parse_keyword ==
    /\ In("ctx.parse_keyword")
    /\ Goes(IF ~HasChr THEN Failing(pos, SexpParseError)
            ELSE IF IsWhitespace(Chr)
                 THEN IF from_utf8(Top.acc).ok THEN Deliver(seek(pos), Callers, Top.acc)
                      ELSE Failing(seek(pos), Utf8Error)
            ELSE Going(seek(pos), Append(Callers, CtxFrame(Top.fn, Top.at, Append(Top.acc, Chr)))))

(* sexp.rs: one turn of the loop of parse_text *)
Ctx_parse_text ==
    /\ In("ctx.parse_text")
    /\ Goes(IF ~HasChr THEN Failing(pos, SexpParseError)
            ELSE IF IsWhitespace(Chr) THEN Going(seek(pos), stack)
            ELSE IF Chr = LPAREN
                 THEN Going(seek(pos), Calling("item", <<CtxFrame("ctx.parse_text_item", "keyword", Unit),
                                                        CtxFrame("ctx.parse_keyword", "loop", <<>>)>>))
            ELSE IF Chr = RPAREN THEN Deliver(seek(pos), Callers, Text(Top.acc))
            ELSE IF Chr = QUOTE
                 THEN Going(seek(pos), Calling("string", <<CtxFrame("ctx.parse_string", "loop", <<>>)>>))
            ELSE Failing(pos, SexpParseError))

(* sexp.rs: one turn of one of the three loops of parse_weblink; the last  *)
(* leaves the ')' it meets unread                                          *)
Ctx_parse_weblink ==
    /\ In("ctx.parse_weblink")
    /\ Goes(IF ~HasChr THEN Failing(pos, SexpParseError)
            ELSE IF IsWhitespace(Chr) THEN Going(seek(pos), stack)
            ELSE IF Top.at \in {"title", "href"} /\ Chr = QUOTE
                 THEN Going(seek(pos), Calling(Top.at, <<CtxFrame("ctx.parse_string", "loop", <<>>)>>))
            ELSE IF Top.at = "end" /\ Chr = RPAREN
                 THEN Deliver(pos, Callers, WebLink(Top.acc[1], Top.acc[2]))
            ELSE Failing(pos, SexpParseError))

(* sexp.rs: one turn of the loop of parse_bold *)
Ctx_parse_bold ==
    /\ In("ctx.parse_bold")
    /\ Goes(IF ~HasChr THEN Failing(pos, SexpParseError)
            ELSE IF IsWhitespace(Chr) THEN Going(seek(pos), stack)
            ELSE IF Chr = QUOTE
                 THEN Going(seek(pos), Calling("string", <<CtxFrame("ctx.parse_string", "loop", <<>>)>>))
            ELSE Failing(pos, SexpParseError))

(* sexp.rs: one turn of one of the three loops of parse_post.  Their       *)
(* `if let Some(chr) = self.chr` has no else: with no byte left the turn   *)
(* does nothing and the loop goes round again                              *)
Ctx_parse_post ==
    /\ In("ctx.parse_post")
    /\ Goes(IF ~HasChr THEN Going(pos, stack)
            ELSE IF IsWhitespace(Chr) THEN Going(seek(pos), stack)
            ELSE IF IsDigit(Chr)
                 THEN Going(pos, Calling(Top.at, <<CtxFrame("ctx.parse_number", "loop", 0)>>))
            ELSE Failing(pos, SexpParseError))

(* sexp.rs: one turn of the loop of parse_header *)
Ctx_parse_header ==
    /\ In("ctx.parse_header")
    /\ Goes(IF ~HasChr THEN Failing(pos, SexpParseError)
            ELSE IF IsWhitespace(Chr) THEN Going(seek(pos), stack)
            ELSE IF Chr = QUOTE
                 THEN Going(seek(pos), Calling("string", <<CtxFrame("ctx.parse_string", "loop", <<>>)>>))
            ELSE Failing(pos, SexpParseError))

(* sexp.rs: one turn of the loop of parse_string.  After a backslash the   *)
(* cursor moves on to the escaped byte, which is pushed, and stays on it   *)
Ctx_parse_string ==
    /\ In("ctx.parse_string")
    /\ Goes(IF ~HasChr THEN Failing(pos, SexpParseError)
            ELSE IF Chr = BACKSLASH
                 THEN IF seek(pos) > Len(input) THEN Going(seek(pos), stack)
                      ELSE IF input[seek(pos)] \in {BACKSLASH, QUOTE}
                           THEN Going(seek(pos),
                                      Append(Callers, CtxFrame(Top.fn, Top.at,
                                                               Append(Top.acc, input[seek(pos)]))))
                      ELSE Failing(seek(pos), SexpParseError)
            ELSE IF Chr = QUOTE
                 THEN IF from_utf8(Top.acc).ok THEN Deliver(seek(pos), Callers, Top.acc)
                      ELSE Failing(seek(pos), Utf8Error)
            ELSE Going(seek(pos), Append(Callers, CtxFrame(Top.fn, Top.at, Append(Top.acc, Chr)))))

(* sexp.rs: one turn of the loop of parse_number, in u16 arithmetic: on    *)
(* overflow a build with overflow checks panics and one without goes on    *)
(* with the wrapped value                                                  *)
Ctx_parse_number ==
    /\ In("ctx.parse_number")
    /\ \/ Goes(IF ~HasChr THEN Failing(pos, SexpParseError)
               ELSE IF IsDigit(Chr)
                    THEN Going(seek(pos), Append(Callers, CtxFrame(Top.fn, Top.at,
                                                    (Top.acc * 10 + (Chr - 48)) % Half)))
               ELSE IF IsWhitespace(Chr) THEN Deliver(seek(pos), Callers, Top.acc)
               ELSE Failing(pos, SexpParseError))
       \/ /\ HasChr /\ IsDigit(Chr)
          /\ Top.acc * 10 + (Chr - 48) >= Half
          /\ Goes(Failing(seek(pos), Panic))

(* sexp.rs: one turn of the loop of roll_up_until_end *)
Ctx_roll_up_until_end ==
    /\ In("ctx.roll_up_until_end")
    /\ Goes(IF ~HasChr THEN Failing(pos, SexpParseError)
            ELSE IF IsWhitespace(Chr) THEN Going(seek(pos), stack)
            ELSE IF Chr = RPAREN THEN Deliver(seek(pos), Callers, Unit)
            ELSE Failing(pos, SexpParseError))

NextParse ==
    \/ Ctx_parse \/ Ctx_roll_up_until_start \/ Ctx_parse_exprs \/ Ctx_parse_keyword
    \/ Ctx_parse_text \/ Ctx_parse_weblink \/ Ctx_parse_bold \/ Ctx_parse_post
    \/ Ctx_parse_header \/ Ctx_parse_string \/ Ctx_parse_number \/ Ctx_roll_up_until_end
(* The byte sources the older parser is run on: the documents below and   *)
(* every prefix of each, so that the source ends at every point of them,  *)
(* besides the short sources over the alphabet and the empty source       *)
\* ((txt "a" (b "x") (p 2020 1 2 ) "z") (li "x" (h "y")) (h "z" )) : a text with bold and post reference, a list with a header, a header
DiaryDoc == <<40, 40, 116, 120, 116, 32, 34, 97, 34, 32, 40, 98, 32, 34, 120,
    34, 41, 32, 40, 112, 32, 50, 48, 50, 48, 32, 49, 32, 50, 32, 41, 32, 34,
    122, 34, 41, 32, 40, 108, 105, 32, 34, 120, 34, 32, 40, 104, 32, 34, 121,
    34, 41, 41, 32, 40, 104, 32, 34, 122, 34, 32, 41, 41>>
\* ((text (a "t" "h" )) (list) (header "z")) : a web link, an empty list, the long keywords
LinkDoc == <<40, 40, 116, 101, 120, 116, 32, 40, 97, 32, 34, 116, 34, 32, 34,
    104, 34, 32, 41, 41, 32, 40, 108, 105, 115, 116, 41, 32, 40, 104, 101, 97,
    100, 101, 114, 32, 34, 122, 34, 41, 41>>
\* ("a\"b") : a string holding an escaped quote
EscapedQuoteDoc == <<40, 34, 97, 92, 34, 98, 34, 41>>
\* ("a\\b") : a string holding an escaped backslash
EscapedBackslashDoc == <<40, 34, 97, 92, 92, 98, 34, 41>>
\* ("a\b") : a backslash before another byte
BadEscapeDoc == <<40, 34, 97, 92, 98, 34, 41>>
\* ("ab") : a string without escapes
PlainStringDoc == <<40, 34, 97, 98, 34, 41>>
\* ((txt (p 65536 1 2 ))) : a year that does not fit 16 bits
LongNumberDoc == <<40, 40, 116, 120, 116, 32, 40, 112, 32, 54, 53, 53, 51, 54,
    32, 49, 32, 50, 32, 41, 41, 41>>
\* ((txt (p 1 2 3))) : a day with no whitespace after it
TightNumberDoc == <<40, 40, 116, 120, 116, 32, 40, 112, 32, 49, 32, 50, 32,
    51, 41, 41, 41>>
\* ("<FF>") : a string that is no UTF-8 text
BadStringDoc == <<40, 34, 255, 34, 41>>
\* ((<FF> )) : a keyword that is no UTF-8 text
BadKeywordDoc == <<40, 40, 255, 32, 41, 41>>
\* ((foo )) : an unknown item keyword
UnknownItemDoc == <<40, 40, 102, 111, 111, 32, 41, 41>>
\* ((txt (x ))) : an unknown span keyword
UnknownSpanDoc == <<40, 40, 116, 120, 116, 32, 40, 120, 32, 41, 41, 41>>
\* ((txt (b 1))) : operands of the wrong kind
BoldNoStringDoc == <<40, 40, 116, 120, 116, 32, 40, 98, 32, 49, 41, 41, 41>>
\* ((h 1))
HeaderNoStringDoc == <<40, 40, 104, 32, 49, 41, 41>>
\* ((txt (a "t" 1)))
LinkNoStringDoc == <<40, 40, 116, 120, 116, 32, 40, 97, 32, 34, 116, 34, 32,
    49, 41, 41, 41>>
\* ((txt (a "t" "h" "x")))
LinkSurplusDoc == <<40, 40, 116, 120, 116, 32, 40, 97, 32, 34, 116, 34, 32,
    34, 104, 34, 32, 34, 120, 34, 41, 41, 41>>
\* ((txt (p "x")))
PostNoNumberDoc == <<40, 40, 116, 120, 116, 32, 40, 112, 32, 34, 120, 34, 41,
    41, 41>>
\* ((txt 1))
TextBadByteDoc == <<40, 40, 116, 120, 116, 32, 49, 41, 41>>
\*  x
NoStartDoc == <<32, 120>>
\* ((txt (b "x" "y")))
BoldSurplusDoc == <<40, 40, 116, 120, 116, 32, 40, 98, 32, 34, 120, 34, 32,
    34, 121, 34, 41, 41, 41>>

DirectDocs ==
    {DiaryDoc,
     LinkDoc,
     EscapedQuoteDoc,
     EscapedBackslashDoc,
     BadEscapeDoc,
     PlainStringDoc,
     LongNumberDoc,
     TightNumberDoc,
     BadStringDoc,
     BadKeywordDoc,
     UnknownItemDoc,
     UnknownSpanDoc,
     BoldNoStringDoc,
     HeaderNoStringDoc,
     LinkNoStringDoc,
     LinkSurplusDoc,
     PostNoNumberDoc,
     TextBadByteDoc,
     NoStartDoc,
     BoldSurplusDoc}

Prefixes(d) == {SubSeq(d, 1, k) : k \in 0..Len(d)}
DirectInputs == UNION {Prefixes(d) : d \in DirectDocs} \cup ShortInputs

InitParse ==
    /\ input \in DirectInputs
    /\ pos = 1
    /\ stack = <<CtxFrame("ctx.parse", "start", Unit)>>
    /\ outcome = NoOutcome
    /\ expr = NoExpr
    /\ result = NoResult
    /\ DriverIdle

SpecParse == InitParse /\ [][NextParse]_vars

\* a turn of the older parser that returns from parse
ParseReturns == NextParse /\ Finished'

\* C26: the older parser ends on every source with a Document or an error:
\* once the source has ended, the next turn of whatever loop it is in
\* returns from parse, also while the year, month or day of a post
\* reference is still to come.
C26_DirectParseTerminates ==
    (Running /\ ~HasChr) => ENABLED ParseReturns

\* a source that is one string between the parentheses of the root
OneStringDoc ==
    /\ Len(input) >= 4 /\ input[1] = LPAREN /\ input[2] = QUOTE
    /\ QuotedToken(input, 3, <<>>).kind = "string"
    /\ QuotedToken(input, 3, <<>>).next = Len(input)
    /\ input[Len(input)] = RPAREN
    /\ Utf8From(QuotedToken(input, 3, <<>>).str, 1)

\* C27: the older parser decodes a string as parse_string of the reader
\* does: \\ gives one backslash and \" one quote, the scan goes on after
\* the escaped byte, and an escaped quote does not end the string.
C27_StringDecodingAgrees ==
    (Finished /\ OneStringDoc)
        => outcome = Ok(Document(<<Text(<<RawString(QuotedToken(input, 3, <<>>).str)>>)>>))

====
